---- MODULE Spec2Model ----
(***************************************************************************)
(* Verification model of the polymarket-agent trading core.                *)
(*                                                                         *)
(*   portfolio-risk  : Portfolio (position ledger), RiskChecker,           *)
(*                     KellyCriterion, CircuitBreaker,                      *)
(*                     PortfolioRiskManager (process_event, evaluate_trade) *)
(*   signal-generation: SignalPipeline::process                            *)
(*                                                                         *)
(* Numbers.  The code computes money and prices in f64.  The model uses    *)
(* exact rationals [n |-> numerator, d |-> denominator > 0] in lowest      *)
(* terms, so every comparison is decided exactly; inputs are chosen away   *)
(* from the thresholds by far more than an f64 rounding error.             *)
(* Time.  Utc::now() is the variable now, counted in units of 10 minutes.  *)
(* The timestamps stored in Position and PnLRecord (created_at,            *)
(* updated_at, timestamp) are written but never read by the code modelled  *)
(* here and are left out of the records.                                   *)
(***************************************************************************)
EXTENDS Integers, Sequences, FiniteSets, TLC

VARIABLES
    positions,           \* Portfolio.positions: (market, outcome) -> Position | NoPosition
    pnl_history,         \* Portfolio.pnl_history: Seq(PnLRecord)
    total_realized_pnl,  \* Portfolio.total_realized_pnl
    config,              \* PortfolioRiskManager.config: risk_limits, kelly_multiplier
    circuit_breaker,     \* RiskChecker.circuit_breaker: CircuitBreaker
    now,                 \* Utc::now(), in units of 10 minutes
    steps,               \* number of events handed to process_event so far
    lastEvent,           \* the last event given to process_event, with its result
    lastEval,            \* the last evaluate_trade call, with its result
    pipeline,            \* SignalPipeline.config and whether storage is configured
    stored,              \* the signals held by the configured SignalStorage
    lastTick,            \* the last SignalPipeline::process call: candidates and output
    flows,               \* per position: money spent, money received, P&L recorded
    sizing,              \* the last call of a Kelly sizer: path, inputs, result
    pairs,               \* PairCostGenerator: the PairCostState of a market, last generate
    quoting,             \* MarketMakingGenerator: the state of a market, last generate
    correlation,         \* CorrelationGenerator: the last check of an edge and its signals
    ingress,             \* the adapter and the event bus: messages in, events published
    monitor,             \* ResolutionMonitor and CalibrationTracker: the tables they write
    drift                \* DriftDetector: the drift_alerts table and the last check

vars == << positions, pnl_history, total_realized_pnl, config,
           circuit_breaker, now, steps, lastEvent, lastEval,
           pipeline, stored, lastTick, flows, sizing,
           pairs, quoting, correlation, ingress, monitor, drift >>

ledgerVars == << positions, pnl_history, total_realized_pnl >>
pipelineVars == << pipeline, stored, lastTick >>
managerVars == << ledgerVars, config, circuit_breaker, now, steps, lastEvent, lastEval >>
monitoringVars == << monitor, drift >>
extVars == << flows, sizing, pairs, quoting, correlation, ingress, monitoringVars >>

-----------------------------------------------------------------------------
(* Exact rational arithmetic standing for f64.                             *)

Abs(x) == IF x < 0 THEN -x ELSE x

RECURSIVE GCD(_, _)
GCD(a, b) == IF b = 0 THEN a ELSE GCD(b, a % b)

Rat(n, d) ==
    LET g == GCD(Abs(n), Abs(d))
        s == IF d < 0 THEN -1 ELSE 1
    IN  [n |-> (s * n) \div g, d |-> (s * d) \div g]

Num(k) == [n |-> k, d |-> 1]
Zero == Num(0)
One == Num(1)

RAdd(x, y) == Rat(x.n * y.d + y.n * x.d, x.d * y.d)
RSub(x, y) == Rat(x.n * y.d - y.n * x.d, x.d * y.d)
RMul(x, y) == Rat(x.n * y.n, x.d * y.d)
RDiv(x, y) == Rat(x.n * y.d, x.d * y.n)
RNeg(x) == [n |-> -x.n, d |-> x.d]
RLt(x, y) == x.n * y.d < y.n * x.d
RLe(x, y) == x.n * y.d <= y.n * x.d
RGt(x, y) == RLt(y, x)
RGe(x, y) == RLe(y, x)
RMax(x, y) == IF RLt(x, y) THEN y ELSE x
RMin(x, y) == IF RLt(y, x) THEN y ELSE x
RAbs(x) == [n |-> Abs(x.n), d |-> x.d]

-----------------------------------------------------------------------------
(* Inputs of the model.                                                    *)

Markets == {"m1", "m2"}
Outcomes == {"YES", "NO"}
Keys == Markets \X Outcomes
Sides == {"Buy", "Sell"}

\* Trade and PriceTick inputs of process_event: prices in (0,1), sizes in shares.
TradePrices == {Rat(1, 4), Rat(1, 2)}
TradeSizes == {40, 80}

\* Number of events process_event is given in one run.
MaxEvents == 3

\* Option<f64>::None, and f64::MIN as the peak before the first record
NoValue == [n |-> 0, d |-> 0]

NoPosition == [state |-> "None"]
NoEvent == [type |-> "None"]
NoEval == [result |-> "None"]
NoSizing == [path |-> "None"]

\* CorrelationGenerator::new: an empty CorrelationGraph, nothing searched yet
NoCorrelation ==
    [market_prices |-> [m \in Markets |-> NoValue], edges |-> << >>,
     last |-> [found |-> FALSE]]

\* PairCostConfig::default
PairCostConfig ==
    [target_pair_cost |-> One, safety_margin |-> Rat(99, 100),
     min_position_size |-> Num(10), max_imbalance_ratio |-> Rat(3, 2),
     max_total_size |-> Num(1000), min_edge |-> Rat(1, 100)]

\* PairCostState::default
EmptyPairCostState ==
    [yes_qty |-> Zero, no_qty |-> Zero, yes_cost |-> Zero, no_cost |-> Zero,
     avg_yes_price |-> Zero, avg_no_price |-> Zero, pair_cost |-> Zero,
     total_invested |-> Zero]

NoPairs == [state |-> EmptyPairCostState, last |-> [ask |-> NoValue]]

\* MarketMakingConfig::default
MarketMakingConfig ==
    [min_spread |-> Rat(2, 100), max_inventory_imbalance |-> Rat(3, 10),
     base_position_size |-> Num(100), volatility_multiplier |-> Rat(3, 2),
     inventory_adjustment |-> Rat(1, 10), news_spread_multiplier |-> Num(2)]

\* MarketMakingState::default
EmptyMarketMakingState ==
    [yes_inventory |-> Zero, no_inventory |-> Zero, total_invested |-> Zero,
     last_spread |-> Zero, volatility_score |-> Zero]

NoQuoting == [state |-> EmptyMarketMakingState, updates |-> 0, last |-> [generated |-> FALSE]]

\* a row that is not in its table; a column that is NULL
NoRow == [present |-> FALSE]
Null == NoValue
TradeIds == {"t1"}
PredictionIds == {"p1"}

\* ResolutionMonitor::new over empty tables, at time 0
NoMonitor ==
    [resolutions |-> [m \in Markets |-> NoRow], cache |-> [m \in Markets |-> NoRow],
     trades |-> [t \in TradeIds |-> NoRow],
     predictions |-> [q \in PredictionIds |-> NoRow],
     clock |-> 0, last |-> [handled |-> FALSE]]

NoDrift == [alerts |-> << >>, clock |-> 0, last |-> [checked |-> FALSE]]

\* the topics KafkaProducer::publish is called with
Topics == {"order-book-updates", "price-ticks", "trades", "market-events"}

\* nothing received, nothing published, nothing processed
NoIngress ==
    [received |-> << >>, topics |-> [t \in Topics |-> << >>],
     published |-> << >>, processed |-> << >>]
NoFlow == [money_in |-> Zero, money_out |-> Zero, realized |-> Zero, closed |-> FALSE]

-----------------------------------------------------------------------------
(* Portfolio (portfolio.rs): the position ledger.                          *)

Held(pos) == {k \in Keys : pos[k] # NoPosition}

\* Position::new
NewPosition(value, price) ==
    [investment |-> value, avg_entry_price |-> price, current_price |-> price,
     unrealized_pnl |-> Zero, state |-> "Open"]

\* Position::current_value
current_value(p) ==
    IF RGt(p.avg_entry_price, Zero)
    THEN RMul(p.investment, RDiv(p.current_price, p.avg_entry_price))
    ELSE Zero

\* the shares a position holds: what was invested at the average entry price
shares_held(p) == RDiv(p.investment, p.avg_entry_price)

\* Position::is_closed
is_closed(p) == RLe(p.investment, Rat(1, 100))

RECURSIVE SumValues(_, _)
SumValues(pos, ks) ==
    IF ks = {} THEN Zero
    ELSE LET k == CHOOSE x \in ks : TRUE
         IN  RAdd(current_value(pos[k]), SumValues(pos, ks \ {k}))

\* Portfolio::total_value
total_value(pos) == SumValues(pos, Held(pos))

\* Portfolio::num_positions
num_positions(pos) == Cardinality(Held(pos))

HistoryCap == 1000

\* Portfolio::record_pnl: called after the positions were updated
record_pnl(hist, pnl, pos) ==
    LET h == Append(hist, [pnl |-> pnl, portfolio_value |-> total_value(pos)])
    IN  IF Len(h) > HistoryCap THEN Tail(h) ELSE h

\* Position::update_on_buy: the error, if any
buy_error(p, value, price) ==
    IF RLe(value, Zero) THEN "BuyValueNotPositive" ELSE "Ok"

\* Position::update_on_buy: the position after the buy
update_on_buy(p, value, price) ==
    LET total == RAdd(p.investment, value)
        total_shares == RAdd(RDiv(p.investment, p.avg_entry_price), RDiv(value, price))
    IN  [p EXCEPT !.avg_entry_price = RDiv(total, total_shares),
                  !.investment = total,
                  !.current_price = price]

\* Position::update_on_sell: the error, if any
sell_error(p, value, price) ==
    IF RLe(value, Zero) THEN "SellValueNotPositive"
    ELSE IF RGt(value, p.investment) THEN "SellMoreThanInvested"
    ELSE "Ok"

\* Position::update_on_sell: cost basis of the shares sold
cost_basis(p, value, price) == RMul(RDiv(value, price), p.avg_entry_price)

\* Position::update_on_sell: the realized P&L returned
sell_pnl(p, value, price) == RSub(value, cost_basis(p, value, price))

\* Position::update_on_sell: the position after the sell
update_on_sell(p, value, price) ==
    [p EXCEPT !.investment = RSub(p.investment, cost_basis(p, value, price)),
              !.current_price = price]

\* Portfolio::add_position: [result, positions]
add_position(pos, key, value, price) ==
    IF pos[key] # NoPosition
    THEN IF buy_error(pos[key], value, price) # "Ok"
         THEN [result |-> buy_error(pos[key], value, price), positions |-> pos]
         ELSE [result |-> "Ok",
               positions |-> [pos EXCEPT ![key] = update_on_buy(pos[key], value, price)]]
    ELSE [result |-> "Ok",
          positions |-> [pos EXCEPT ![key] = NewPosition(value, price)]]

\* Portfolio::remove_position: [result, positions, pnl_history]
remove_position(pos, hist, key, value, price) ==
    IF pos[key] = NoPosition
    THEN [result |-> "PositionNotFound", positions |-> pos, pnl_history |-> hist]
    ELSE IF sell_error(pos[key], value, price) # "Ok"
    THEN [result |-> sell_error(pos[key], value, price),
          positions |-> pos, pnl_history |-> hist]
    ELSE LET sold == [pos EXCEPT ![key] = update_on_sell(pos[key], value, price)]
             hist2 == record_pnl(hist, sell_pnl(pos[key], value, price), sold)
         IN  [result |-> "Ok",
              positions |-> IF is_closed(sold[key])
                            THEN [sold EXCEPT ![key] = NoPosition] ELSE sold,
              pnl_history |-> hist2]

\* Portfolio::update_price
update_price(pos, key, price) ==
    IF pos[key] # NoPosition THEN [pos EXCEPT ![key].current_price = price] ELSE pos

\* Portfolio::resolve_market, the P&L realized on one position
resolution_pnl(p, outcome, winning_outcome) ==
    IF outcome = winning_outcome
    THEN RAdd(p.unrealized_pnl, p.investment)
    ELSE RNeg(p.investment)

\* resolve_loop reading the positions without removing them from the map
RECURSIVE resolve_loop_keep(_, _, _, _, _)
resolve_loop_keep(pos, hist, total, order, winning_outcome) ==
    IF order = << >> THEN [positions |-> pos, pnl_history |-> hist, total_pnl |-> total]
    ELSE LET key == Head(order)
             pnl == resolution_pnl(pos[key], key[2], winning_outcome)
         IN  resolve_loop_keep(pos, record_pnl(hist, pnl, pos),
                               RAdd(total, pnl), Tail(order), winning_outcome)

\* Portfolio::resolve_market, the loop over market_positions taken in the order
\* `order` (a sequence of keys; the HashMap yields them in an arbitrary order):
\* [positions, pnl_history, total_pnl]
RECURSIVE resolve_loop(_, _, _, _, _)
resolve_loop(pos, hist, total, order, winning_outcome) ==
    IF order = << >> THEN [positions |-> pos, pnl_history |-> hist, total_pnl |-> total]
    ELSE LET key == Head(order)
             pnl == resolution_pnl(pos[key], key[2], winning_outcome)
             removed == [pos EXCEPT ![key] = NoPosition]
         IN  resolve_loop(removed, record_pnl(hist, pnl, removed),
                          RAdd(total, pnl), Tail(order), winning_outcome)

\* The orders in which a HashMap may yield the keys ks
Orders(ks) ==
    {o \in [1..Cardinality(ks) -> ks] : \A i, j \in DOMAIN o : i # j => o[i] # o[j]}

market_positions(pos, market) == {k \in Held(pos) : k[1] = market}

-----------------------------------------------------------------------------
(* Portfolio metrics read by the post-trade monitor (portfolio.rs).         *)

\* Portfolio::calculate_max_drawdown, the scan from record i on; peak = NoValue
\* stands for f64::MIN before the first record.
RECURSIVE drawdown_scan(_, _, _, _)
drawdown_scan(hist, i, peak, max_dd) ==
    IF i > Len(hist) THEN max_dd
    ELSE LET v == hist[i].portfolio_value
             pk == IF peak = NoValue THEN v ELSE IF RGt(v, peak) THEN v ELSE peak
             dd == RDiv(RSub(pk, v), RMax(pk, One))
         IN  drawdown_scan(hist, i + 1, pk, IF RGt(dd, max_dd) THEN dd ELSE max_dd)

calculate_max_drawdown(hist) ==
    IF hist = << >> THEN Zero ELSE drawdown_scan(hist, 1, NoValue, Zero)

VarMinHistory == 10
VarSamples == 100

\* the element at 0-based index k of the ascending sort of the sequence xs
SortedAt(xs, k) ==
    LET below(i) == Cardinality({j \in DOMAIN xs : RLt(xs[j], xs[i])})
        upto(i) == Cardinality({j \in DOMAIN xs : RLe(xs[j], xs[i])})
        i == CHOOSE i \in DOMAIN xs : below(i) <= k /\ k < upto(i)
    IN  xs[i]

\* Portfolio::calculate_metrics / calculate_var(0.95, 100): var_95, or NoValue
var_95(hist) ==
    IF Len(hist) < VarMinHistory THEN NoValue
    ELSE LET len == IF Len(hist) < VarSamples THEN Len(hist) ELSE VarSamples
             returns == [i \in 1..len |-> hist[Len(hist) + 1 - i].pnl]
             var_index == (5 * len) \div 100
         IN  SortedAt(returns, var_index)

-----------------------------------------------------------------------------
(* RiskChecker and CircuitBreaker (risk.rs, config.rs).                     *)

\* RiskLimits::default
DefaultLimits ==
    [max_position_size |-> Num(100), max_total_exposure |-> Num(1000),
     max_theme_exposure |-> Num(500), max_positions |-> 20,
     daily_loss_limit |-> Num(100)]

\* CircuitBreakerConfig::default, which RiskChecker::new always installs
circuit_breaker_config ==
    [max_drawdown_percentage |-> Rat(15, 100), var_95_limit |-> Num(200),
     max_violations_per_day |-> 3]

\* CircuitBreaker::new; trigger_time -1 is None; cooldown is 30 minutes
Cooldown == 3
NewCircuitBreaker ==
    [is_triggered |-> FALSE, trigger_time |-> -1, violations_today |-> << >>]

\* RiskChecker::calculate_daily_pnl
calculate_daily_pnl(hist) == NoValue

\* RiskChecker::check_circuit_breakers: the violations, in the order pushed
check_circuit_breakers(limits, hist) ==
    LET daily == calculate_daily_pnl(hist)
        dd == calculate_max_drawdown(hist)
        var == var_95(hist)
    IN  (IF daily # NoValue /\ RLt(daily, RNeg(limits.daily_loss_limit))
         THEN << "DailyLossLimitExceeded" >> ELSE << >>)
        \o (IF RGt(dd, circuit_breaker_config.max_drawdown_percentage)
            THEN << "MaxDrawdownExceeded" >> ELSE << >>)
        \o (IF var # NoValue /\ RGt(RAbs(var), circuit_breaker_config.var_95_limit)
            THEN << "VaRLimitExceeded" >> ELSE << >>)

\* Portfolio::exposure_by_category: the category of a market's positions.  The
\* manager never calls Portfolio::set_category, so `categories` stays empty.
category_of(market) == "uncategorized"

\* RiskChecker::calculate_theme_exposure
calculate_theme_exposure(pos, theme) ==
    SumValues(pos, {k \in Held(pos) : category_of(k[1]) = theme})

\* check_trade testing the position size before the total exposure
check_trade_size_first(limits, pos, market, side, value) ==
    LET total == total_value(pos)
        theme_exposure == calculate_theme_exposure(pos, "default")
    IN  IF RGt(value, limits.max_position_size)
        THEN [kind |-> "MaxPositionSizeExceeded", proposed |-> value,
              limit |-> limits.max_position_size]
        ELSE IF RGt(RAdd(total, value), limits.max_total_exposure)
        THEN [kind |-> "MaxTotalExposureExceeded", proposed |-> value,
              limit |-> limits.max_total_exposure]
        ELSE IF side = "Buy" /\ num_positions(pos) >= limits.max_positions
        THEN [kind |-> "MaxPositionsExceeded", proposed |-> value,
              limit |-> Num(limits.max_positions)]
        ELSE IF market_positions(pos, market) # {}
                /\ RGt(RAdd(theme_exposure, value), limits.max_theme_exposure)
        THEN [kind |-> "MaxThemeExposureExceeded", proposed |-> value,
              limit |-> limits.max_theme_exposure]
        ELSE [kind |-> "Ok", proposed |-> value, limit |-> Zero]

\* check_trade with the comparison of the exposure check turned round
check_trade_exposure_inverted(limits, pos, market, side, value) ==
    LET total == total_value(pos)
        theme_exposure == calculate_theme_exposure(pos, "default")
    IN  IF RLt(RAdd(total, value), limits.max_total_exposure)
        THEN [kind |-> "MaxTotalExposureExceeded", proposed |-> value,
              limit |-> limits.max_total_exposure]
        ELSE IF RGt(value, limits.max_position_size)
        THEN [kind |-> "MaxPositionSizeExceeded", proposed |-> value,
              limit |-> limits.max_position_size]
        ELSE IF side = "Buy" /\ num_positions(pos) >= limits.max_positions
        THEN [kind |-> "MaxPositionsExceeded", proposed |-> value,
              limit |-> Num(limits.max_positions)]
        ELSE IF market_positions(pos, market) # {}
                /\ RGt(RAdd(theme_exposure, value), limits.max_theme_exposure)
        THEN [kind |-> "MaxThemeExposureExceeded", proposed |-> value,
              limit |-> limits.max_theme_exposure]
        ELSE [kind |-> "Ok", proposed |-> value, limit |-> Zero]

\* RiskChecker::check_trade: the first violation found, or Ok
check_trade(limits, pos, market, side, value) ==
    LET total == total_value(pos)
        theme_exposure == calculate_theme_exposure(pos, "default")
    IN  IF RGt(RAdd(total, value), limits.max_total_exposure)
        THEN [kind |-> "MaxTotalExposureExceeded", proposed |-> value,
              limit |-> limits.max_total_exposure]
        ELSE IF RGt(value, limits.max_position_size)
        THEN [kind |-> "MaxPositionSizeExceeded", proposed |-> value,
              limit |-> limits.max_position_size]
        ELSE IF side = "Buy" /\ num_positions(pos) >= limits.max_positions
        THEN [kind |-> "MaxPositionsExceeded", proposed |-> value,
              limit |-> Num(limits.max_positions)]
        ELSE IF market_positions(pos, market) # {}
                /\ RGt(RAdd(theme_exposure, value), limits.max_theme_exposure)
        THEN [kind |-> "MaxThemeExposureExceeded", proposed |-> value,
              limit |-> limits.max_theme_exposure]
        ELSE [kind |-> "Ok", proposed |-> value, limit |-> Zero]

\* RiskChecker::new: KellyCriterion::new(0.25, None)
kelly_criterion == [edge |-> NoValue, multiplier |-> Rat(1, 4)]

\* KellyCriterion::calculate_position
calculate_position(kelly, price, bankroll) ==
    IF RLe(price, Zero) \/ RGe(price, One) \/ RLe(bankroll, Zero) THEN Zero
    ELSE LET b == RSub(RDiv(One, price), One)
             p == IF kelly.edge # NoValue
                  THEN RMin(RAdd(price, kelly.edge), Rat(99, 100))
                  ELSE price
             q == RSub(One, p)
             full_kelly == RDiv(RSub(RMul(b, p), q), b)
             kelly_fraction == RMax(RMul(full_kelly, kelly.multiplier), Zero)
             capped_fraction == RMin(kelly_fraction, Rat(1, 4))
         IN  RMul(capped_fraction, bankroll)

\* evaluate_trade holding the trade against the 25% cap of the amount it passes
kelly_limit_cap(cfg, price) == RMul(Rat(1, 4), cfg.kelly_multiplier)

\* PortfolioRiskManager::evaluate_trade: which limit the trade is held against
kelly_limit(cfg, price) ==
    calculate_position(kelly_criterion, price, cfg.kelly_multiplier)

\* PortfolioRiskManager::evaluate_trade: Ok or the RiskViolation returned
evaluate_trade(cfg, pos, market, outcome, side, price, size) ==
    LET position_value == RMul(price, size)
        checked == check_trade(cfg.risk_limits, pos, market, side, position_value)
    IN  IF checked.kind # "Ok" THEN checked
        ELSE IF RGt(position_value, kelly_limit(cfg, price))
        THEN [kind |-> "KellyLimitExceeded", proposed |-> position_value,
              limit |-> kelly_limit(cfg, price)]
        ELSE [kind |-> "Ok", proposed |-> position_value,
              limit |-> kelly_limit(cfg, price)]

\* CircuitBreaker::trigger
trigger(cb, t) ==
    [is_triggered |-> TRUE, trigger_time |-> t,
     violations_today |-> Append(cb.violations_today, t)]

\* is_active without the cooldown test
is_active_no_cooldown(cb, t) == cb.is_triggered

\* CircuitBreaker::is_active
is_active(cb, t) ==
    IF ~cb.is_triggered THEN FALSE
    ELSE IF cb.trigger_time # -1 /\ t - cb.trigger_time > Cooldown THEN FALSE
    ELSE TRUE

\* CircuitBreaker::reset; the cutoff is 24 hours
Day == 144
reset(cb, t) ==
    [is_triggered |-> FALSE, trigger_time |-> -1,
     violations_today |-> SelectSeq(cb.violations_today, LAMBDA v : v > t - Day)]

\* CircuitBreaker::violations_today
violations_today(cb) == Len(cb.violations_today)

-----------------------------------------------------------------------------
(* PortfolioRiskManager (lib.rs).                                           *)

\* RiskConfig::default
DefaultConfig == [risk_limits |-> DefaultLimits, kelly_multiplier |-> Rat(1, 4)]

\* PortfolioRiskManager::update_position_from_trade
update_position_from_trade(pos, hist, trade) ==
    LET position_value == RMul(trade.price, Num(trade.size))
        key == << trade.market_id, trade.outcome_id >>
    IN  IF trade.side = "Buy"
        THEN LET r == add_position(pos, key, position_value, trade.price)
             IN  [result |-> r.result, positions |-> r.positions, pnl_history |-> hist]
        ELSE remove_position(pos, hist, key, position_value, trade.price)

\* process_event rolling the trade back when the monitor reports a violation
process_event_unwinding(pos, hist, realized, cfg, ev, order) ==
    IF ev.type = "Trade"
    THEN LET u == update_position_from_trade(pos, hist, ev)
             violations == check_circuit_breakers(cfg.risk_limits, u.pnl_history)
         IN  IF u.result # "Ok" \/ violations # << >>
             THEN [positions |-> pos, pnl_history |-> hist, total_realized_pnl |-> realized,
                   result |-> IF u.result # "Ok" THEN u.result
                              ELSE "CircuitBreakerTriggered",
                   violations |-> IF u.result # "Ok" THEN << >> ELSE violations]
             ELSE [positions |-> u.positions, pnl_history |-> u.pnl_history,
                   total_realized_pnl |-> realized, result |-> "Ok",
                   violations |-> << >>]
    ELSE IF ev.type = "PriceTick"
    THEN [positions |-> update_price(pos, << ev.market_id, ev.outcome_id >>, ev.price),
          pnl_history |-> hist, total_realized_pnl |-> realized,
          result |-> "Ok", violations |-> << >>]
    ELSE LET r == resolve_loop(pos, hist, Zero, order, ev.outcome_id)
         IN  [positions |-> r.positions, pnl_history |-> r.pnl_history,
              total_realized_pnl |-> RAdd(realized, r.total_pnl),
              result |-> "Ok", violations |-> << >>]

\* PortfolioRiskManager::process_event: the ledger after the event and the result
\* returned.  `order` is the order in which resolve_market walks the positions
\* of the market (used by MarketResolved only).
process_event(pos, hist, realized, cfg, ev, order) ==
    IF ev.type = "Trade"
    THEN LET u == update_position_from_trade(pos, hist, ev)
             violations == check_circuit_breakers(cfg.risk_limits, u.pnl_history)
         IN  IF u.result # "Ok"
             THEN [positions |-> pos, pnl_history |-> hist, total_realized_pnl |-> realized,
                   result |-> u.result, violations |-> << >>]
             ELSE [positions |-> u.positions, pnl_history |-> u.pnl_history,
                   total_realized_pnl |-> realized,
                   result |-> IF violations # << >> THEN "CircuitBreakerTriggered" ELSE "Ok",
                   violations |-> violations]
    ELSE IF ev.type = "PriceTick"
    THEN [positions |-> update_price(pos, << ev.market_id, ev.outcome_id >>, ev.price),
          pnl_history |-> hist, total_realized_pnl |-> realized,
          result |-> "Ok", violations |-> << >>]
    ELSE LET r == resolve_loop(pos, hist, Zero, order, ev.outcome_id)
         IN  [positions |-> r.positions, pnl_history |-> r.pnl_history,
              total_realized_pnl |-> RAdd(realized, r.total_pnl),
              result |-> "Ok", violations |-> << >>]

\* One call of process_event on the manager, whatever else is observed of it
Handle(ev, redelivered) ==
    /\ \E order \in Orders(market_positions(positions, ev.market_id)) :
         LET r == process_event(positions, pnl_history, total_realized_pnl,
                                config, ev, order)
         IN  /\ positions' = r.positions
             /\ pnl_history' = r.pnl_history
             /\ total_realized_pnl' = r.total_realized_pnl
             /\ lastEvent' = [event |-> ev, result |-> r.result,
                              violations |-> r.violations, redelivered |-> redelivered]
    /\ steps' = steps + 1
    /\ UNCHANGED << config, circuit_breaker, now, lastEval, pipelineVars >>

\* One call of process_event on the manager
Process(ev, redelivered) ==
    /\ steps < MaxEvents
    /\ Handle(ev, redelivered)
    /\ UNCHANGED extVars

\* process_event(MarketEvent::Trade)
ProcessTrade ==
    \E m \in Markets, o \in Outcomes, sd \in Sides, pr \in TradePrices, sz \in TradeSizes :
        Process([type |-> "Trade", id |-> steps + 1, market_id |-> m, outcome_id |-> o,
                 side |-> sd, price |-> pr, size |-> sz], FALSE)

\* process_event(MarketEvent::PriceTick)
ProcessPriceTick ==
    \E m \in Markets, o \in Outcomes, pr \in TradePrices :
        Process([type |-> "PriceTick", market_id |-> m, outcome_id |-> o, price |-> pr],
                FALSE)

\* process_event(MarketEvent::MarketResolved)
ProcessMarketResolved ==
    \E m \in Markets, o \in Outcomes :
        Process([type |-> "MarketResolved", market_id |-> m, outcome_id |-> o], FALSE)

\* The adapter delivers at least once: the event just processed arrives again
Redeliver ==
    /\ lastEvent # NoEvent
    /\ Process(lastEvent.event, TRUE)

\* PipelineConfig::default
DefaultPipelineConfig ==
    [enabled |-> TRUE, max_signals_per_cycle |-> 10,
     min_confidence |-> Rat(3, 5), min_edge |-> Rat(3, 100)]

\* SignalPipeline::new: no validators, no storage
NewPipeline ==
    [config |-> DefaultPipelineConfig, validators |-> << >>, has_storage |-> FALSE]

NoTick == [tick |-> 0, candidates |-> << >>, returned |-> << >>]

\* PortfolioRiskManager::with_config, next to a pipeline pl
Built(cfg, pl) ==
    /\ positions = [k \in Keys |-> NoPosition]
    /\ pnl_history = << >>
    /\ total_realized_pnl = Zero
    /\ config = cfg
    /\ circuit_breaker = NewCircuitBreaker
    /\ now = 0
    /\ steps = 0
    /\ lastEvent = NoEvent
    /\ lastEval = NoEval
    /\ pipeline = pl
    /\ stored = << >>
    /\ lastTick = NoTick
    /\ flows = [k \in Keys |-> NoFlow]
    /\ sizing = NoSizing
    /\ pairs = NoPairs
    /\ quoting = NoQuoting
    /\ correlation = NoCorrelation
    /\ ingress = NoIngress
    /\ monitor = NoMonitor
    /\ drift = NoDrift

Constructed(cfg) == Built(cfg, NewPipeline)

\* PortfolioRiskManager::new
Init == Constructed(DefaultConfig)

Next ==
    \/ ProcessTrade
    \/ ProcessPriceTick
    \/ ProcessMarketResolved
    \/ Redeliver

Spec == Init /\ [][Next]_vars

-----------------------------------------------------------------------------
(* The pre-trade gate: evaluate_trade on the manager (SpecGate).            *)

\* evaluate_trade inputs: position_value = price * size is 0, 10 or 75
EvalPrices == {Rat(1, 2)}
EvalSizes == {Num(0), Num(20), Num(150)}
EvalOutcomes == {"YES"}
EvalMarkets == {"m1"}

\* the RiskConfig of lib.rs test_risk_limits, and one whose exposure limit (60)
\* lies between the two positive trade values and which allows one position
TestLimits ==
    [DefaultLimits EXCEPT !.max_position_size = Num(50), !.max_total_exposure = Num(200)]
TightLimits ==
    [DefaultLimits EXCEPT !.max_position_size = Num(50), !.max_total_exposure = Num(60),
                          !.max_theme_exposure = Num(5), !.max_positions = 1]
Configs ==
    {DefaultConfig,
     [DefaultConfig EXCEPT !.risk_limits = TestLimits],
     [DefaultConfig EXCEPT !.risk_limits = TightLimits]}

\* Number of events process_event is given before the gate is examined
MaxGateEvents == 1

\* One call of PortfolioRiskManager::evaluate_trade (&self: nothing changes);
\* the call, the time of the call and its result are recorded
Evaluate(m, o, sd, pr, sz) ==
    /\ lastEval' = [market_id |-> m, outcome_id |-> o, side |-> sd, price |-> pr,
                    size |-> sz, at |-> now,
                    result |-> evaluate_trade(config, positions, m, o, sd, pr, sz)]
    /\ UNCHANGED << ledgerVars, config, circuit_breaker, now, steps, lastEvent,
                    pipelineVars, extVars >>

EvaluateTrade ==
    \E m \in EvalMarkets, o \in EvalOutcomes, sd \in Sides, pr \in EvalPrices, sz \in EvalSizes :
        Evaluate(m, o, sd, pr, sz)

\* PortfolioRiskManager::with_config
InitGate == \E cfg \in Configs : Constructed(cfg)

NextGate ==
    \/ steps < MaxGateEvents /\ ProcessTrade
    \/ steps < MaxGateEvents /\ ProcessPriceTick
    \/ steps < MaxGateEvents /\ ProcessMarketResolved
    \/ EvaluateTrade

SpecGate == InitGate /\ [][NextGate]_vars

-----------------------------------------------------------------------------
(* The circuit breaker driven through its public operations, with the gate  *)
(* and the clock (SpecBreaker).  No code of the manager calls trigger() or  *)
(* reset(); here they are called from outside, as risk.rs                   *)
(* test_circuit_breaker does.                                               *)

MaxTime == 5
MaxTriggers == 3

\* CircuitBreaker::trigger at the current time
Trigger ==
    /\ Len(circuit_breaker.violations_today) < MaxTriggers
    /\ circuit_breaker' = trigger(circuit_breaker, now)
    /\ UNCHANGED << ledgerVars, config, now, steps, lastEvent, lastEval, pipelineVars, extVars >>

\* CircuitBreaker::reset at the current time
Reset ==
    /\ circuit_breaker' = reset(circuit_breaker, now)
    /\ UNCHANGED << ledgerVars, config, now, steps, lastEvent, lastEval, pipelineVars, extVars >>

\* Ten minutes pass
Tick ==
    /\ now < MaxTime
    /\ now' = now + 1
    /\ UNCHANGED << ledgerVars, config, circuit_breaker, steps, lastEvent, lastEval,
                    pipelineVars, extVars >>

\* evaluate_trade while the breaker is driven: the ledger is empty, so the market
\* and the side of the proposed trade make no difference to the gate
EvaluateBuy ==
    \E pr \in EvalPrices, sz \in {Num(0), Num(20)} : Evaluate("m1", "YES", "Buy", pr, sz)

NextBreaker ==
    \/ Trigger
    \/ Reset
    \/ Tick
    \/ EvaluateBuy

SpecBreaker == Init /\ [][NextBreaker]_vars

-----------------------------------------------------------------------------
(* Claims about the ledger and the manager, checked under Spec.             *)

Ledger == << positions, pnl_history, total_realized_pnl >>

\* A step that hands one event to process_event
Processed == steps' = steps + 1

\* C1: resolve_market(M, W) applied a second time, with the same market and the
\* same winning outcome, leaves the ledger (open positions, P&L history, total
\* realized P&L) exactly as the first application left it.
C1_ResolveIdempotent ==
    [][(/\ Processed
        /\ lastEvent # NoEvent
        /\ lastEvent.event.type = "MarketResolved"
        /\ lastEvent'.event = lastEvent.event)
       => Ledger' = Ledger]_vars

\* C1 witness: the resolution of a market that realized P&L was applied again
C1_Witness ==
    /\ lastEvent # NoEvent
    /\ lastEvent.event.type = "MarketResolved"
    /\ lastEvent.redelivered
    /\ pnl_history # << >>
    /\ total_realized_pnl # Zero

\* C2: delivering the same Trade event (identical trade id) again leaves the
\* ledger in the state the first delivery left it in.
C2_TradeDeliveryIdempotent ==
    [][(/\ Processed
        /\ lastEvent'.redelivered
        /\ lastEvent'.event.type = "Trade"
        /\ lastEvent'.event.id = lastEvent.event.id)
       => Ledger' = Ledger]_vars

\* C4: on a P&L update on which the post-trade monitor finds a condition
\* violated, the circuit breaker trips: it is triggered, its trigger_time is
\* now, and the violation is appended to today's violations.
C4_ViolationTripsBreaker ==
    (/\ lastEvent # NoEvent
     /\ lastEvent.event.type = "Trade"
     /\ lastEvent.violations # << >>)
    => /\ circuit_breaker.is_triggered
       /\ circuit_breaker.trigger_time = now
       /\ circuit_breaker.violations_today # << >>
       /\ circuit_breaker.violations_today[Len(circuit_breaker.violations_today)] = now

\* C10: a sell that would dispose of more shares than the position holds, or
\* that targets a position that does not exist, fails, and the failed operation
\* leaves every position, the P&L history and the realized P&L unchanged.
C10_OversellFailsClean ==
    [][(/\ Processed
        /\ lastEvent'.event.type = "Trade"
        /\ lastEvent'.event.side = "Sell"
        /\ LET ev == lastEvent'.event
               held == positions[<< ev.market_id, ev.outcome_id >>]
           IN  \/ held = NoPosition
               \/ RGt(Num(ev.size), shares_held(held)))
       => /\ lastEvent'.result \notin {"Ok", "CircuitBreakerTriggered"}
          /\ Ledger' = Ledger]_vars

\* The part of C10 the code keeps: a sell whose proceeds exceed the invested
\* amount, or that targets a position that does not exist, fails and leaves
\* the ledger unchanged.
ProceedsOversellFailsClean ==
    [][(/\ Processed
        /\ lastEvent'.event.type = "Trade"
        /\ lastEvent'.event.side = "Sell"
        /\ LET ev == lastEvent'.event
               held == positions[<< ev.market_id, ev.outcome_id >>]
           IN  \/ held = NoPosition
               \/ RGt(RMul(ev.price, Num(ev.size)), held.investment))
       => /\ lastEvent'.result \notin {"Ok", "CircuitBreakerTriggered"}
          /\ Ledger' = Ledger]_vars


\* C13: a position is Open after creation, PartiallyClosed after a partial sell
\* and Closed after a full sell or the resolution of its market.
C13_PositionStateMachine ==
    \A k \in Held(positions) :
        /\ positions[k].state \in {"Open", "PartiallyClosed"}
        /\ (/\ lastEvent # NoEvent
            /\ lastEvent.event.type = "Trade"
            /\ lastEvent.event.side = "Sell"
            /\ lastEvent.result \in {"Ok", "CircuitBreakerTriggered"}
            /\ k = << lastEvent.event.market_id, lastEvent.event.outcome_id >>)
           => positions[k].state = "PartiallyClosed"

-----------------------------------------------------------------------------
(* The ledger under any buy, sell, mark and resolve, with the money that    *)
(* goes into and comes out of each position kept beside it (SpecLedger).    *)
(* A winning share pays 1 at resolution, a losing share pays 0.             *)

MaxLedgerEvents == 3
LedgerMarkets == {"m1"}
LedgerPrices == {Rat(1, 4), Rat(1, 2), Rat(3, 2)}
LedgerSizes == {0, 40, 80}

Accepted(result) == result \in {"Ok", "CircuitBreakerTriggered"}

\* what the holder of position p receives when its market resolves
payout(p, outcome, winning_outcome) ==
    IF outcome = winning_outcome THEN shares_held(p) ELSE Zero

\* the flows after process_event took the ledger from pos to pos2 on event ev
track(fl, pos, pos2, ev, result) ==
    IF ev.type = "Trade"
    THEN LET k == << ev.market_id, ev.outcome_id >>
             value == RMul(ev.price, Num(ev.size))
         IN  IF ~Accepted(result) THEN fl
             ELSE IF ev.side = "Buy"
             THEN [fl EXCEPT ![k] =
                     IF pos[k] = NoPosition THEN [NoFlow EXCEPT !.money_in = value]
                     ELSE [@ EXCEPT !.money_in = RAdd(@, value)]]
             ELSE [fl EXCEPT ![k] =
                     [money_in |-> @.money_in,
                      money_out |-> RAdd(@.money_out, value),
                      realized |-> RAdd(@.realized, sell_pnl(pos[k], value, ev.price)),
                      closed |-> pos2[k] = NoPosition]]
    ELSE IF ev.type = "MarketResolved"
    THEN [k \in Keys |->
            IF k[1] = ev.market_id /\ pos[k] # NoPosition
            THEN [money_in |-> fl[k].money_in,
                  money_out |-> RAdd(fl[k].money_out, payout(pos[k], k[2], ev.outcome_id)),
                  realized |-> RAdd(fl[k].realized,
                                    resolution_pnl(pos[k], k[2], ev.outcome_id)),
                  closed |-> TRUE]
            ELSE fl[k]]
    ELSE fl

\* One call of process_event, with the flows of the positions it touches
Audited(ev) ==
    /\ steps < MaxLedgerEvents
    /\ Handle(ev, FALSE)
    /\ flows' = track(flows, positions, positions', ev, lastEvent'.result)
    /\ UNCHANGED << sizing, pairs, quoting, correlation, ingress, monitoringVars >>

\* buy and sell: process_event(MarketEvent::Trade)
LedgerTrade ==
    \E m \in LedgerMarkets, o \in Outcomes, sd \in Sides, pr \in LedgerPrices,
       sz \in LedgerSizes :
        Audited([type |-> "Trade", id |-> steps + 1, market_id |-> m, outcome_id |-> o,
                 side |-> sd, price |-> pr, size |-> sz])

\* mark: process_event(MarketEvent::PriceTick)
LedgerMark ==
    \E m \in LedgerMarkets, o \in Outcomes, pr \in LedgerPrices :
        Audited([type |-> "PriceTick", market_id |-> m, outcome_id |-> o, price |-> pr])

\* resolve: process_event(MarketEvent::MarketResolved)
LedgerResolve ==
    \E m \in LedgerMarkets, o \in Outcomes :
        Audited([type |-> "MarketResolved", market_id |-> m, outcome_id |-> o])

NextLedger ==
    \/ LedgerTrade
    \/ LedgerMark
    \/ LedgerResolve

SpecLedger == Init /\ [][NextLedger]_vars

Epsilon == Rat(1, 100)

\* C11: after any sequence of buy, sell, mark and resolve, every position held
\* in the ledger has investment >= 0 and avg_entry_price in (0, 1], and a
\* position with investment < 0.01 is not held as open.
C11_PositionInvariants ==
    \A k \in Held(positions) :
        /\ RGe(positions[k].investment, Zero)
        /\ RGt(positions[k].avg_entry_price, Zero)
        /\ RLe(positions[k].avg_entry_price, One)
        /\ ~RLt(positions[k].investment, Epsilon)

\* C12: for every position that has been closed, by sells or by resolution,
\* the P&L recorded for it adds up to the money received from it minus the
\* money spent on it.
C12_MassConservation ==
    \A k \in Keys :
        flows[k].closed =>
            flows[k].realized = RSub(flows[k].money_out, flows[k].money_in)

-----------------------------------------------------------------------------
(* The Kelly sizers: KellyCriterion of the risk crate (risk.rs) and          *)
(* KellyCalculator / PositionCalculator of the signal crate (kelly.rs),      *)
(* each called on inputs of any sign (SpecSizer).  A Decimal division by     *)
(* zero panics; the panic is the result Panic.                               *)

Panic == [n |-> 1, d |-> 0]

\* Decimal division
DecDiv(x, y) == IF x = Panic \/ y = Panic \/ y = Zero THEN Panic ELSE RDiv(x, y)

\* KellyCalculator::default
DefaultKellyCalculator ==
    [max_fraction |-> Rat(1, 4), safety_multiplier |-> Rat(1, 2), min_fraction |-> Rat(1, 100)]

\* the clamp that ends calculate and from_edge
clamp_fraction(calc, safe_kelly) ==
    RMax(RMin(RMax(safe_kelly, calc.min_fraction), calc.max_fraction), Zero)

\* KellyCalculator::calculate
calculate(calc, win_probability, avg_win, avg_loss) ==
    LET p == win_probability
        q == RSub(One, p)
        b == DecDiv(avg_win, RAbs(avg_loss))
    IN  IF b = Panic THEN Panic
        ELSE IF b = Zero THEN Zero
        ELSE clamp_fraction(calc, RMul(RDiv(RSub(RMul(b, p), q), b),
                                       calc.safety_multiplier))

\* KellyCalculator::from_edge
from_edge(calc, edge, win_probability) ==
    LET p == win_probability
        kelly == DecDiv(RSub(RMul(edge, p), RMul(RSub(One, p), edge)), edge)
    IN  IF kelly = Panic THEN Panic
        ELSE clamp_fraction(calc, RMul(kelly, calc.safety_multiplier))

\* KellyCalculator::position_size
position_size(bankroll, kelly_fraction) ==
    IF kelly_fraction = Panic THEN Panic ELSE RMul(bankroll, kelly_fraction)

\* KellyCalculator::optimal_position
optimal_position(calc, bankroll, win_probability, avg_win, avg_loss) ==
    position_size(bankroll, calculate(calc, win_probability, avg_win, avg_loss))

\* KellyCalculator::position_from_edge
position_from_edge(calc, bankroll, edge, win_probability) ==
    position_size(bankroll, from_edge(calc, edge, win_probability))

\* the volatility adjustment of PositionCalculator
vol_adjustment(volatility) ==
    IF RGt(volatility, Rat(7, 10)) THEN Rat(1, 2)
    ELSE IF RGt(volatility, Rat(1, 2)) THEN Rat(3, 4)
    ELSE One

Scaled(position, factor) == IF position = Panic THEN Panic ELSE RMul(position, factor)

\* PositionCalculator::calculate_position; a strategy is [kind, frac]
sized_position(calc, strategy, bankroll, win_probability, avg_win, avg_loss, volatility) ==
    LET base_position == optimal_position(calc, bankroll, win_probability, avg_win, avg_loss)
    IN  IF base_position = Panic THEN Panic
        ELSE CASE strategy.kind = "FullKelly" -> base_position
               [] strategy.kind = "HalfKelly" -> Scaled(base_position, Rat(1, 2))
               [] strategy.kind = "QuarterKelly" -> Scaled(base_position, Rat(1, 4))
               [] strategy.kind = "FixedFraction" -> RMul(bankroll, strategy.frac)
               [] strategy.kind = "VolatilityAdjusted" ->
                    Scaled(base_position, vol_adjustment(volatility))

\* PositionCalculator::calculate_from_edge
calculate_from_edge(calc, strategy, bankroll, edge, win_probability, volatility) ==
    LET base_position == position_from_edge(calc, bankroll, edge, win_probability)
    IN  IF strategy.kind = "VolatilityAdjusted"
        THEN Scaled(base_position, vol_adjustment(volatility))
        ELSE base_position

SizerPrices == {Zero, Rat(1, 4), Rat(1, 2), One}
SizerBankrolls == {Num(-100), Zero, Num(1000)}
SizerEdges == {NoValue, Zero, Rat(1, 20)}
SizerMultipliers == {Rat(1, 4), One}
WinProbabilities == {Rat(1, 2), Rat(3, 5)}
AvgWins == {One, Num(2)}
AvgLosses == {Zero, One}
Volatilities == {Rat(3, 10), Rat(4, 5)}
Strategies ==
    {[kind |-> "HalfKelly", frac |-> Zero], [kind |-> "VolatilityAdjusted", frac |-> Zero],
     [kind |-> "FixedFraction", frac |-> Rat(1, 50)]}

sizerFrame == << managerVars, pipelineVars, flows, pairs, quoting, correlation, ingress,
    monitoringVars >>

\* KellyCriterion::calculate_position
SizeByCriterion ==
    \E edge \in SizerEdges, multiplier \in SizerMultipliers, price \in SizerPrices,
       bankroll \in SizerBankrolls :
        /\ sizing' = [path |-> "KellyCriterion", edge |-> edge, multiplier |-> multiplier,
                      price |-> price, bankroll |-> bankroll, max_fraction |-> Rat(1, 4),
                      result |-> calculate_position([edge |-> edge, multiplier |-> multiplier],
                                                    price, bankroll)]
        /\ UNCHANGED sizerFrame

\* PositionCalculator::calculate_position
SizeByOdds ==
    \E strategy \in Strategies, bankroll \in SizerBankrolls, p \in WinProbabilities,
       avg_win \in AvgWins, avg_loss \in AvgLosses, volatility \in Volatilities :
        /\ sizing' = [path |-> "PositionCalculator", strategy |-> strategy,
                      bankroll |-> bankroll, win_probability |-> p, avg_win |-> avg_win,
                      avg_loss |-> avg_loss, volatility |-> volatility,
                      max_fraction |-> DefaultKellyCalculator.max_fraction,
                      result |-> sized_position(DefaultKellyCalculator, strategy, bankroll,
                                                p, avg_win, avg_loss, volatility)]
        /\ UNCHANGED sizerFrame

\* PositionCalculator::calculate_from_edge
SizeByEdge ==
    \E strategy \in Strategies, bankroll \in SizerBankrolls, edge \in SizerEdges \ {NoValue},
       p \in WinProbabilities, volatility \in Volatilities :
        /\ sizing' = [path |-> "FromEdge", strategy |-> strategy, bankroll |-> bankroll,
                      edge |-> edge, win_probability |-> p, volatility |-> volatility,
                      max_fraction |-> DefaultKellyCalculator.max_fraction,
                      result |-> calculate_from_edge(DefaultKellyCalculator, strategy,
                                                     bankroll, edge, p, volatility)]
        /\ UNCHANGED sizerFrame

NextSizer ==
    \/ SizeByCriterion
    \/ SizeByOdds
    \/ SizeByEdge

SpecSizer == Init /\ [][NextSizer]_vars

Sized == sizing # NoSizing

\* C14: for any inputs, the position size a Kelly sizer returns lies in
\* [0, bankroll * max_frac] (it is 0 when the bankroll is not positive).
C14_KellyClamp ==
    Sized =>
        /\ sizing.result # Panic
        /\ RGe(sizing.result, Zero)
        /\ RLe(sizing.result, RMul(RMax(sizing.bankroll, Zero), sizing.max_fraction))

\* the edge of the last call: the advantage over the market price, or over the
\* break-even win probability q / b of the odds
edge_of(call) ==
    CASE call.path = "KellyCriterion" -> IF call.edge = NoValue THEN Zero ELSE call.edge
      [] call.path = "FromEdge" -> call.edge
      [] call.path = "PositionCalculator" ->
           RSub(RMul(call.avg_win, call.win_probability),
                RMul(RAbs(call.avg_loss), RSub(One, call.win_probability)))

\* C15: a Kelly sizer returns a position of 0 whenever the edge is 0, in every
\* sizing path.
C15_ZeroEdgeZeroSize ==
    (Sized /\ edge_of(sizing) = Zero) => sizing.result = Zero

-----------------------------------------------------------------------------
(* The pair-cost generator (pair_cost_arbitrage.rs) on one market: generate  *)
(* on order-book snapshots, add_yes / add_no when a buy is filled            *)
(* (SpecPairCost).                                                           *)

\* PairCostState::calculate_pair_cost
calculate_pair_cost(st) ==
    LET avg_yes == IF RGt(st.yes_qty, Zero) THEN RDiv(st.yes_cost, st.yes_qty)
                   ELSE st.avg_yes_price
        avg_no == IF RGt(st.no_qty, Zero) THEN RDiv(st.no_cost, st.no_qty)
                  ELSE st.avg_no_price
    IN  [st EXCEPT !.avg_yes_price = avg_yes, !.avg_no_price = avg_no,
                   !.pair_cost = RAdd(avg_yes, avg_no)]

\* PairCostState::has_locked_profit
has_locked_profit(st, cfg) ==
    /\ RGt(st.pair_cost, Zero)
    /\ RLt(st.pair_cost, RMul(cfg.target_pair_cost, cfg.safety_margin))

\* PairCostState::should_buy_yes
should_buy_yes(st, price, cfg) ==
    LET new_yes_cost == RAdd(st.yes_cost, RMul(price, cfg.min_position_size))
        new_yes_qty == RAdd(st.yes_qty, cfg.min_position_size)
        new_pair_cost == RAdd(RDiv(new_yes_cost, new_yes_qty), st.avg_no_price)
    IN  IF RGt(RAdd(st.yes_qty, cfg.min_position_size), cfg.max_total_size) THEN FALSE
        ELSE IF RGt(st.no_qty, Zero)
                /\ RGt(RDiv(new_yes_qty, st.no_qty), cfg.max_imbalance_ratio) THEN FALSE
        ELSE RLt(new_pair_cost, st.pair_cost) /\ RLt(new_pair_cost, cfg.safety_margin)

\* PairCostState::should_buy_no
should_buy_no(st, price, cfg) ==
    LET new_no_cost == RAdd(st.no_cost, RMul(price, cfg.min_position_size))
        new_no_qty == RAdd(st.no_qty, cfg.min_position_size)
        new_pair_cost == RAdd(st.avg_yes_price, RDiv(new_no_cost, new_no_qty))
    IN  IF RGt(RAdd(st.no_qty, cfg.min_position_size), cfg.max_total_size) THEN FALSE
        ELSE IF RGt(st.yes_qty, Zero)
                /\ RGt(RDiv(st.no_qty, st.yes_qty), cfg.max_imbalance_ratio) THEN FALSE
        ELSE RLt(new_pair_cost, st.pair_cost) /\ RLt(new_pair_cost, cfg.safety_margin)

\* PairCostState::add_yes
add_yes(st, qty, price) ==
    calculate_pair_cost([st EXCEPT !.yes_qty = RAdd(@, qty),
                                   !.yes_cost = RAdd(@, RMul(qty, price)),
                                   !.total_invested = RAdd(@, RMul(qty, price))])

\* PairCostState::add_no
add_no(st, qty, price) ==
    calculate_pair_cost([st EXCEPT !.no_qty = RAdd(@, qty),
                                   !.no_cost = RAdd(@, RMul(qty, price)),
                                   !.total_invested = RAdd(@, RMul(qty, price))])

\* create_yes_signal / create_no_signal: the fields read here
pair_signal(direction, price, cfg) ==
    [direction |-> direction, entry_price |-> price, position_size |-> cfg.min_position_size,
     target_price |-> One,
     stop_loss |-> RMul(price, IF direction = "Long" THEN Rat(9, 10) ELSE Rat(11, 10))]

\* PairCostGenerator::find_entry_opportunity, then generate: the signals for a
\* snapshot with best ask `ask` and best bid `bid` (NoValue: that side is empty)
pair_cost_generate(st, cfg, ask, bid) ==
    IF has_locked_profit(st, cfg) THEN << >>
    ELSE LET no_price == RSub(One, bid)
             yes_signal == IF ask # NoValue /\ should_buy_yes(st, ask, cfg)
                           THEN << pair_signal("Long", ask, cfg) >> ELSE << >>
             no_signal == IF bid # NoValue /\ should_buy_no(st, no_price, cfg)
                          THEN << pair_signal("Short", no_price, cfg) >> ELSE << >>
         IN  yes_signal \o no_signal

MaxFills == 2
BestAsks == {Rat(48, 100), Rat(55, 100)}
BestBids == {Rat(45, 100), Rat(51, 100), Rat(56, 100)}
FillPrices == {Rat(48, 100), Rat(49, 100), Rat(55, 100)}

pairFrame == << managerVars, pipelineVars, flows, sizing, quoting, correlation, ingress,
    monitoringVars >>

\* PairCostGenerator::generate on one snapshot; the state is read, not written
PairGenerate ==
    \E ask \in BestAsks \cup {NoValue}, bid \in BestBids \cup {NoValue} :
        /\ ask # NoValue \/ bid # NoValue
        /\ pairs' = [pairs EXCEPT !.last =
                        [ask |-> ask, bid |-> bid, state |-> pairs.state,
                         signals |-> pair_cost_generate(pairs.state, PairCostConfig,
                                                        ask, bid)]]
        /\ UNCHANGED pairFrame

Fills(st) == (st.yes_qty.n + st.no_qty.n) \div PairCostConfig.min_position_size.n

\* a buy of YES was filled: PairCostState::add_yes
PairAddYes ==
    /\ Fills(pairs.state) < MaxFills
    /\ \E price \in FillPrices :
        pairs' = [pairs EXCEPT !.state =
                     add_yes(@, PairCostConfig.min_position_size, price)]
    /\ UNCHANGED pairFrame

\* a buy of NO was filled: PairCostState::add_no
PairAddNo ==
    /\ Fills(pairs.state) < MaxFills
    /\ \E price \in FillPrices :
        pairs' = [pairs EXCEPT !.state =
                     add_no(@, PairCostConfig.min_position_size, price)]
    /\ UNCHANGED pairFrame

NextPairCost ==
    \/ PairGenerate
    \/ PairAddYes
    \/ PairAddNo

SpecPairCost == Init /\ [][NextPairCost]_vars

PairGenerated == pairs.last.ask # NoValue \/ "bid" \in DOMAIN pairs.last

HasSignal(direction, price) ==
    \E i \in DOMAIN pairs.last.signals :
        /\ pairs.last.signals[i].direction = direction
        /\ pairs.last.signals[i].entry_price = price

\* C16: from an empty pair-cost state a snapshot whose YES ask is below the
\* safety margin yields a buy-YES signal; once YES alone is held, a snapshot
\* whose NO ask n = 1 - best bid keeps avg_yes + n below the safety margin
\* yields a buy-NO signal: buys are suppressed only when both sides are held.
C16_PairCostEntries ==
    PairGenerated =>
        LET st == pairs.last.state
            ask == pairs.last.ask
            bid == pairs.last.bid
        IN  /\ (/\ st = EmptyPairCostState
                /\ ask # NoValue
                /\ RLt(ask, PairCostConfig.safety_margin))
               => HasSignal("Long", ask)
            /\ (/\ RGt(st.yes_qty, Zero)
                /\ st.no_qty = Zero
                /\ bid # NoValue
                /\ RLt(RAdd(st.avg_yes_price, RSub(One, bid)), PairCostConfig.safety_margin))
               => HasSignal("Short", RSub(One, bid))

-----------------------------------------------------------------------------
(* The market-making generator (market_making.rs) on one market: generate on *)
(* order-book snapshots, update_state on executions, closes and volatility   *)
(* updates (SpecQuoting).                                                    *)

\* MarketMakingGenerator::calculate_imbalance
calculate_imbalance(st) ==
    IF RAdd(st.yes_inventory, st.no_inventory) = Zero THEN Zero
    ELSE RDiv(RSub(st.yes_inventory, st.no_inventory),
              RAdd(st.yes_inventory, st.no_inventory))

\* MarketMakingGenerator::calculate_adjusted_spread
calculate_adjusted_spread(cfg, base_spread, imbalance) ==
    RAdd(base_spread, RMul(RAbs(imbalance), cfg.inventory_adjustment))

\* should_provide_liquidity with the two thresholds exchanged
should_provide_liquidity_swapped(cfg, side, imbalance) ==
    IF side = "Buy" THEN ~RLt(imbalance, RNeg(cfg.max_inventory_imbalance))
    ELSE ~RGt(imbalance, cfg.max_inventory_imbalance)

\* MarketMakingGenerator::should_provide_liquidity
should_provide_liquidity(cfg, side, imbalance) ==
    IF side = "Buy" THEN ~RGt(imbalance, cfg.max_inventory_imbalance)
    ELSE ~RLt(imbalance, RNeg(cfg.max_inventory_imbalance))

\* MarketMakingGenerator::generate_order_prices
generate_order_prices(market_price, spread) ==
    LET yes_price == RSub(market_price, RDiv(spread, Num(2)))
        no_price == RSub(One, yes_price)
    IN  << RMax(yes_price, Rat(1, 100)), RMax(no_price, Rat(1, 100)) >>

\* MarketMakingGenerator::generate: the signals and the spread it stores, for a
\* snapshot with best bid `bid` and best ask `ask` (NoValue: that side is empty)
quote_generate(st, cfg, bid, ask) ==
    IF bid = NoValue \/ ask = NoValue THEN [signals |-> << >>, state |-> st]
    ELSE LET mid_price == RDiv(RAdd(bid, ask), Num(2))
             imbalance == calculate_imbalance(st)
             base_spread == IF RGt(st.volatility_score, Rat(7, 10))
                            THEN RMul(cfg.min_spread, cfg.volatility_multiplier)
                            ELSE cfg.min_spread
             adjusted_spread == calculate_adjusted_spread(cfg, base_spread, imbalance)
             prices == generate_order_prices(mid_price, adjusted_spread)
             yes_signal == IF should_provide_liquidity(cfg, "Buy", imbalance)
                           THEN << [direction |-> "Long", entry_price |-> prices[1],
                                    target_price |-> mid_price,
                                    stop_loss |-> RMul(prices[1], Rat(95, 100)),
                                    position_size |-> cfg.base_position_size] >>
                           ELSE << >>
             no_signal == IF should_provide_liquidity(cfg, "Sell", imbalance)
                          THEN << [direction |-> "Short", entry_price |-> prices[2],
                                   target_price |-> RSub(One, mid_price),
                                   stop_loss |-> RMul(prices[2], Rat(105, 100)),
                                   position_size |-> cfg.base_position_size] >>
                          ELSE << >>
         IN  [signals |-> yes_signal \o no_signal,
              state |-> [st EXCEPT !.last_spread = adjusted_spread]]

\* MarketMakingGenerator::update_state
quote_update_state(st, update) ==
    CASE update.kind = "TradeExecution" ->
            IF update.side = "Buy"
            THEN [st EXCEPT !.yes_inventory = RAdd(@, update.size),
                            !.total_invested = RAdd(@, RMul(update.size, update.price))]
            ELSE [st EXCEPT !.no_inventory = RAdd(@, update.size),
                            !.total_invested = RAdd(@, RMul(update.size, update.price))]
      [] update.kind = "PositionClosed" ->
            IF update.side = "Buy"
            THEN [st EXCEPT !.yes_inventory = RSub(@, update.size),
                            !.total_invested = RAdd(@, update.realized_pnl)]
            ELSE [st EXCEPT !.no_inventory = RSub(@, update.size),
                            !.total_invested = RAdd(@, update.realized_pnl)]
      [] update.kind = "VolatilityUpdate" ->
            [st EXCEPT !.volatility_score = update.score]

MaxUpdates == 3
QuoteBids == {Rat(48, 100)}
QuoteAsks == {Rat(52, 100)}
QuoteSizes == {Num(100), Num(200)}
QuotePrices == {Rat(1, 2)}
QuoteScores == {Rat(9, 10)}

quotingFrame == << managerVars, pipelineVars, flows, sizing, pairs, correlation, ingress,
    monitoringVars >>

\* MarketMakingGenerator::generate on one snapshot
QuoteGenerate ==
    \E bid \in QuoteBids \cup {NoValue}, ask \in QuoteAsks \cup {NoValue} :
        LET out == quote_generate(quoting.state, MarketMakingConfig, bid, ask)
        IN  /\ quoting' = [quoting EXCEPT
                  !.state = out.state,
                  !.last = [generated |-> TRUE, bid |-> bid, ask |-> ask,
                            state |-> quoting.state, signals |-> out.signals]]
            /\ UNCHANGED quotingFrame

QuoteUpdate(update) ==
    /\ quoting.updates < MaxUpdates
    /\ quoting' = [quoting EXCEPT !.state = quote_update_state(@, update),
                                  !.updates = @ + 1]
    /\ UNCHANGED quotingFrame

\* update_state(TradeExecution)
QuoteTradeExecution ==
    \E side \in Sides, size \in QuoteSizes, price \in QuotePrices :
        QuoteUpdate([kind |-> "TradeExecution", side |-> side, size |-> size,
                     price |-> price])

\* update_state(PositionClosed)
QuotePositionClosed ==
    \E side \in Sides, size \in QuoteSizes :
        QuoteUpdate([kind |-> "PositionClosed", side |-> side, size |-> size,
                     realized_pnl |-> Zero])

\* update_state(VolatilityUpdate)
QuoteVolatilityUpdate ==
    \E score \in QuoteScores :
        QuoteUpdate([kind |-> "VolatilityUpdate", score |-> score])

NextQuoting ==
    \/ QuoteGenerate
    \/ QuoteTradeExecution
    \/ QuotePositionClosed
    \/ QuoteVolatilityUpdate

SpecQuoting == Init /\ [][NextQuoting]_vars

\* (yes - no) / (yes + no) of the state the last generate read, where defined
InventoryImbalance ==
    LET st == quoting.last.state
    IN  RDiv(RSub(st.yes_inventory, st.no_inventory),
             RAdd(st.yes_inventory, st.no_inventory))

Quoted ==
    /\ quoting.last.generated
    /\ quoting.last.bid # NoValue
    /\ quoting.last.ask # NoValue
    /\ RAdd(quoting.last.state.yes_inventory, quoting.last.state.no_inventory) # Zero

Directions == [i \in DOMAIN quoting.last.signals |-> quoting.last.signals[i].direction]

\* C17: a generate that reads an inventory imbalance above
\* max_inventory_imbalance returns the Short quote alone and no Long quote;
\* one that reads an imbalance below -max_inventory_imbalance returns the
\* Long quote alone.
C17_ImbalanceQuotesOneSide ==
    Quoted =>
        /\ RGt(InventoryImbalance, MarketMakingConfig.max_inventory_imbalance)
           => Directions = << "Short" >>
        /\ RLt(InventoryImbalance, RNeg(MarketMakingConfig.max_inventory_imbalance))
           => Directions = << "Long" >>

\* a generate read yes 300, no 100 (imbalance 0.5) and returned the Short quote alone
C17_Witness ==
    /\ Quoted
    /\ quoting.last.state.yes_inventory = Num(300)
    /\ quoting.last.state.no_inventory = Num(100)
    /\ Directions = << "Short" >>

-----------------------------------------------------------------------------
(* The correlation generator (correlation.rs): a graph of market prices and  *)
(* edges, find_arbitrage_opportunities, opportunity_to_signals               *)
(* (SpecCorrelation).                                                        *)

NoOpportunity == [id |-> 0]

ArbitrageTrade(market_id, direction, entry_price) ==
    [market_id |-> market_id, direction |-> direction, entry_price |-> entry_price,
     position_size |-> Num(100)]

Opportunity(id, edge, type, violation, trades) ==
    [id |-> id, markets |-> << edge.from_market, edge.to_market >>,
     opportunity_type |-> type, violation_amount |-> violation, trades |-> trades,
     expected_profit |-> RMul(violation, Num(100))]

\* CorrelationGraph::check_implication
check_implication(prices, edge, id) ==
    LET price_a == prices[edge.from_market]
        price_b == prices[edge.to_market]
        violation == RSub(price_a, price_b)
    IN  IF price_a = NoValue \/ price_b = NoValue THEN NoOpportunity
        ELSE IF RGt(price_a, price_b) /\ RGe(violation, edge.min_spread)
        THEN Opportunity(id, edge, "Implication Violation", violation,
                         << ArbitrageTrade(edge.to_market, "Long", price_b),
                            ArbitrageTrade(edge.from_market, "Short", price_a) >>)
        ELSE NoOpportunity

\* CorrelationGraph::check_suggestion
check_suggestion(prices, edge, strength, id) ==
    LET price_a == prices[edge.from_market]
        price_b == prices[edge.to_market]
        implied_price_b == RDiv(price_a, strength)
        violation == RSub(implied_price_b, price_b)
    IN  IF price_a = NoValue \/ price_b = NoValue THEN NoOpportunity
        ELSE IF RLt(price_b, implied_price_b) /\ RGe(violation, edge.min_spread)
        THEN Opportunity(id, edge, "Suggestion Violation", violation,
                         << ArbitrageTrade(edge.to_market, "Long", price_b),
                            ArbitrageTrade(edge.from_market, "Short", price_a) >>)
        ELSE NoOpportunity

\* check_mutually_exclusive buying the first market instead of selling it
check_mutually_exclusive_long(prices, edge, id) ==
    LET price_a == prices[edge.from_market]
        price_b == prices[edge.to_market]
        violation == RSub(RAdd(price_a, price_b), One)
    IN  IF price_a = NoValue \/ price_b = NoValue THEN NoOpportunity
        ELSE IF RGt(RAdd(price_a, price_b), One) /\ RGe(violation, edge.min_spread)
        THEN Opportunity(id, edge, "Mutually Exclusive Violation", violation,
                         << ArbitrageTrade(edge.from_market, "Long", price_a),
                            ArbitrageTrade(edge.to_market, "Short", price_b) >>)
        ELSE NoOpportunity

\* CorrelationGraph::check_mutually_exclusive
check_mutually_exclusive(prices, edge, id) ==
    LET price_a == prices[edge.from_market]
        price_b == prices[edge.to_market]
        sum == RAdd(price_a, price_b)
        violation == RSub(sum, One)
    IN  IF price_a = NoValue \/ price_b = NoValue THEN NoOpportunity
        ELSE IF RGt(sum, One) /\ RGe(violation, edge.min_spread)
        THEN Opportunity(id, edge, "Mutually Exclusive Violation", violation,
                         << ArbitrageTrade(edge.from_market, "Short", price_a),
                            ArbitrageTrade(edge.to_market, "Short", price_b) >>)
        ELSE NoOpportunity

\* CorrelationGraph::check_cumulative
check_cumulative(prices, edge, id) == check_mutually_exclusive(prices, edge, id)

\* CorrelationGraph::check_same_outcome
check_same_outcome(prices, edge, id) ==
    LET price_a == prices[edge.from_market]
        price_b == prices[edge.to_market]
        diff == RAbs(RSub(price_a, price_b))
    IN  IF price_a = NoValue \/ price_b = NoValue THEN NoOpportunity
        ELSE IF RGe(diff, edge.min_spread)
        THEN Opportunity(id, edge, "Same Outcome Price Diff", diff,
                         << ArbitrageTrade(edge.from_market,
                                           IF RLt(price_a, price_b) THEN "Long" ELSE "Short",
                                           RMin(price_a, price_b)) >>)
        ELSE NoOpportunity

\* the match of find_violations on the correlation type of one edge; the
\* opportunity's fresh id is the position of the edge in the scan
check_edge(prices, edge, id) ==
    CASE edge.correlation_type = "Implies" -> check_implication(prices, edge, id)
      [] edge.correlation_type = "Suggests" ->
            check_suggestion(prices, edge, edge.strength, id)
      [] edge.correlation_type = "MutuallyExclusive" ->
            check_mutually_exclusive(prices, edge, id)
      [] edge.correlation_type = "Cumulative" -> check_cumulative(prices, edge, id)
      [] edge.correlation_type = "SameOutcome" -> check_same_outcome(prices, edge, id)

\* the loop of find_violations from edge i on
RECURSIVE violations_from(_, _, _)
violations_from(prices, edges, i) ==
    IF i > Len(edges) THEN << >>
    ELSE LET found == check_edge(prices, edges[i], i)
         IN  (IF found = NoOpportunity THEN << >> ELSE << found >>)
             \o violations_from(prices, edges, i + 1)

\* CorrelationGraph::find_violations
find_violations(graph) == violations_from(graph.market_prices, graph.edges, 1)

\* CorrelationGenerator::opportunity_to_signals: the fields read here
opportunity_to_signals(opportunity) ==
    [i \in DOMAIN opportunity.trades |->
        LET trade == opportunity.trades[i]
        IN  [market_id |-> trade.market_id, direction |-> trade.direction,
             entry_price |-> trade.entry_price, position_size |-> trade.position_size,
             target_price |-> One,
             stop_loss |-> RMul(trade.entry_price, Rat(11, 10)),
             expected_value |-> RDiv(opportunity.expected_profit,
                                     Num(Len(opportunity.trades))),
             edge |-> RDiv(opportunity.violation_amount, trade.entry_price),
             opportunity_id |-> opportunity.id,
             violation_amount |-> opportunity.violation_amount,
             expected_profit |-> opportunity.expected_profit]]

MaxEdges == 1
GraphPrices == {Rat(2, 5), Rat(1, 2), Rat(3, 5)}
MinSpreads == {Rat(3, 100), Rat(1, 5)}
Strengths == {Rat(1, 2)}
CorrelationTypes == {"Implies", "Suggests", "MutuallyExclusive", "Cumulative", "SameOutcome"}

correlationFrame == << managerVars, pipelineVars, flows, sizing, pairs, quoting, ingress,
    monitoringVars >>

\* CorrelationGraph::update_price
UpdatePrice ==
    \E m \in Markets, price \in GraphPrices :
        /\ correlation' = [correlation EXCEPT !.market_prices[m] = price]
        /\ UNCHANGED correlationFrame

\* CorrelationGenerator::add_correlation, an edge between two markets
AddCorrelation ==
    /\ Len(correlation.edges) < MaxEdges
    /\ \E from \in Markets, to \in Markets, type \in CorrelationTypes,
          spread \in MinSpreads, strength \in Strengths :
        /\ from # to
        /\ correlation' = [correlation EXCEPT !.edges = Append(@,
              [from_market |-> from, to_market |-> to, correlation_type |-> type,
               strength |-> strength, min_spread |-> spread])]
    /\ UNCHANGED correlationFrame

\* find_arbitrage_opportunities, then opportunity_to_signals on each opportunity
FindArbitrage ==
    LET violations == find_violations(correlation)
    IN  /\ correlation' = [correlation EXCEPT !.last =
              [found |-> TRUE, market_prices |-> correlation.market_prices,
               edges |-> correlation.edges, violations |-> violations,
               signals |-> [i \in DOMAIN violations |->
                               opportunity_to_signals(violations[i])]]]
        /\ UNCHANGED correlationFrame

NextCorrelation ==
    \/ UpdatePrice
    \/ AddCorrelation
    \/ FindArbitrage

SpecCorrelation == Init /\ [][NextCorrelation]_vars

\* edge i of the last search is MutuallyExclusive, both prices were known and
\* their sum exceeded 1 by at least the edge's min_spread
ExclusiveViolated(i) ==
    LET edge == correlation.last.edges[i]
        price_a == correlation.last.market_prices[edge.from_market]
        price_b == correlation.last.market_prices[edge.to_market]
    IN  /\ edge.correlation_type = "MutuallyExclusive"
        /\ price_a # NoValue
        /\ price_b # NoValue
        /\ RGt(RAdd(price_a, price_b), One)
        /\ RGe(RSub(RAdd(price_a, price_b), One), edge.min_spread)

Violation(i) ==
    LET edge == correlation.last.edges[i]
    IN  RSub(RAdd(correlation.last.market_prices[edge.from_market],
                  correlation.last.market_prices[edge.to_market]), One)

\* the signals of the last search made for the opportunity of edge i
SignalsOf(i) ==
    { sig \in UNION { { correlation.last.signals[v][j] :
                          j \in DOMAIN correlation.last.signals[v] } :
                      v \in DOMAIN correlation.last.signals } :
        sig.opportunity_id = i }

SignalCount(i) ==
    LET hits == { v \in DOMAIN correlation.last.violations :
                    correlation.last.violations[v].id = i }
    IN  IF hits = {} THEN 0
        ELSE Len(correlation.last.signals[CHOOSE v \in hits : TRUE])

-----------------------------------------------------------------------------
(* Ingress: the Polymarket connector turns each text message into events and *)
(* publishes them on the event bus; the decision loop takes events off the   *)
(* bus and processes them (SpecIngress).                                     *)

\* WsMessageContent, tagged by "type"
MessageTypes ==
    {"book", "price_change", "tick_size_change", "last_trade_price",
     "best_bid_ask", "new_market", "market_resolved"}

TradeSideTexts == {"BUY", "sell", "UNKNOWN"}

\* str::to_uppercase on the side texts above
to_uppercase(text) ==
    CASE text = "sell" -> "SELL"
      [] text = "buy" -> "BUY"
      [] OTHER -> text

\* the match on msg.side in handle_trade
trade_side(text) ==
    CASE to_uppercase(text) = "BUY" -> "Buy"
      [] to_uppercase(text) = "SELL" -> "Sell"
      [] OTHER -> "Buy"

\* Uuid::new_v4() of the k-th event made for the message at position seq
fresh_id(seq, k) == 2 * seq + k

\* the event a handler builds; `source` and `seq` are the market the message
\* was about and its position at ingress
BusEvent(kind, msg, seq, k) ==
    [kind |-> kind, market_id |-> fresh_id(seq, k), source |-> msg.market,
     seq |-> seq,
     side |-> IF kind = "Trade" THEN trade_side(msg.side) ELSE "None"]

\* handle_text_message: the (topic, event) pairs the handler of the message's
\* type passes to publish, in order
handle_text_message(msg, seq) ==
    CASE msg.type = "book" ->
            << << "order-book-updates", BusEvent("OrderBookUpdate", msg, seq, 0) >> >>
      [] msg.type = "price_change" ->
            << << "price-ticks", BusEvent("PriceTick", msg, seq, 0) >> >>
      [] msg.type = "last_trade_price" ->
            << << "trades", BusEvent("Trade", msg, seq, 0) >> >>
      [] msg.type = "best_bid_ask" ->
            << << "price-ticks", BusEvent("PriceTick", msg, seq, 0) >>,
               << "price-ticks", BusEvent("PriceTick", msg, seq, 1) >> >>
      [] msg.type = "new_market" ->
            << << "market-events", BusEvent("MarketCreated", msg, seq, 0) >> >>
      [] msg.type = "market_resolved" ->
            << << "market-events", BusEvent("MarketResolved", msg, seq, 0) >> >>
      [] msg.type = "tick_size_change" -> << >>

\* KafkaProducer::publish of the first n pairs: each event is appended to the
\* log of its topic
RECURSIVE publish(_, _, _)
publish(topics, outbox, n) ==
    IF n = 0 THEN topics
    ELSE LET before == publish(topics, outbox, n - 1)
         IN  [before EXCEPT ![outbox[n][1]] = Append(@, outbox[n][2])]

MaxMessages == 3

ingressFrame == << managerVars, pipelineVars, flows, sizing, pairs, quoting, correlation,
    monitoringVars >>

\* the read loop of connect_and_run takes the next text message and awaits
\* handle_text_message; a publish that fails ends the handler, so the first
\* `sent` publishes took place
Receive ==
    /\ Len(ingress.received) < MaxMessages
    /\ \E type \in MessageTypes, market \in Markets, side \in TradeSideTexts :
        LET msg == [type |-> type, market |-> market,
                    side |-> IF type = "last_trade_price" THEN side ELSE "None"]
            seq == Len(ingress.received) + 1
            outbox == handle_text_message(msg, seq)
        IN  \E sent \in 0..Len(outbox) :
                ingress' = [ingress EXCEPT
                    !.received = Append(@, msg),
                    !.topics = publish(@, outbox, sent),
                    !.published = @ \o [i \in 1..sent |-> outbox[i][2]]]
    /\ UNCHANGED ingressFrame

\* the decision loop takes the oldest event of one topic and hands it to
\* process_event
Deliver ==
    /\ \E t \in Topics :
        /\ ingress.topics[t] # << >>
        /\ ingress' = [ingress EXCEPT
              !.topics[t] = Tail(@),
              !.processed = Append(@, Head(ingress.topics[t]))]
    /\ UNCHANGED ingressFrame

NextIngress ==
    \/ Receive
    \/ Deliver

SpecIngress == Init /\ [][NextIngress]_vars

\* C19: events of one market are processed in the order in which they
\* entered at ingress; in particular a MarketResolved of a market is
\* processed only after every earlier event of that market has been.
C19_PerMarketFifo ==
    /\ \A i, j \in DOMAIN ingress.processed :
          (/\ i < j
           /\ ingress.processed[i].source = ingress.processed[j].source)
          => ingress.processed[i].seq <= ingress.processed[j].seq
    /\ \A j \in DOMAIN ingress.processed :
          ingress.processed[j].kind = "MarketResolved" =>
              \A t \in Topics : \A i \in DOMAIN ingress.topics[t] :
                  ingress.topics[t][i].source = ingress.processed[j].source
                  => ingress.topics[t][i].seq >= ingress.processed[j].seq

\* C20: a trade message whose side is neither BUY nor SELL publishes no Trade
\* event.
C20_UnknownSideRejected ==
    \A i \in DOMAIN ingress.published :
        ingress.published[i].kind = "Trade" =>
            to_uppercase(ingress.received[ingress.published[i].seq].side)
                \in {"BUY", "SELL"}

-----------------------------------------------------------------------------
(* The resolution monitor (monitoring/resolution.rs) and the prediction      *)
(* outcomes of the calibration tracker (monitoring/calibration.rs) over the  *)
(* tables resolutions, trades and predictions (SpecMonitor).                 *)

\* ResolutionMonitor::calculate_pnl with size 1: << pnl, pnl_percent >>
calculate_pnl(did_win, side, price) ==
    LET pnl == IF did_win
               THEN (IF side THEN RSub(One, price) ELSE RSub(One, price))
               ELSE (IF side THEN RNeg(price) ELSE RSub(One, price))
        cost == IF side THEN price ELSE RSub(One, price)
    IN  << pnl, IF RGt(cost, Zero) THEN RMul(RDiv(pnl, cost), Num(100)) ELSE Zero >>

\* ResolutionMonitor::update_trades_for_resolution: every trade of the market
\* whose pnl IS NULL gets its pnl and pnl_percent
update_trades_for_resolution(trades, market_id, winning_outcome) ==
    [t \in TradeIds |->
        IF /\ trades[t].present
           /\ trades[t].market_id = market_id
           /\ trades[t].pnl = Null
        THEN LET out == calculate_pnl(trades[t].outcome_id = winning_outcome,
                                      trades[t].side, trades[t].price)
             IN  [trades[t] EXCEPT !.pnl = out[1], !.pnl_percent = out[2]]
        ELSE trades[t]]

\* the INSERT ... ON CONFLICT (market_id) DO UPDATE of handle_market_resolution
upsert_resolution(resolutions, market_id, outcome_id, at) ==
    IF resolutions[market_id].present
    THEN [resolutions EXCEPT ![market_id] =
            [@ EXCEPT !.outcome_id = outcome_id, !.status = "Resolved",
                      !.resolved_at = at, !.updated_at = at]]
    ELSE [resolutions EXCEPT ![market_id] =
            [present |-> TRUE, outcome_id |-> outcome_id, status |-> "Resolved",
             resolved_at |-> at, created_at |-> at, updated_at |-> at]]

\* ResolutionMonitor::handle_market_resolution
handle_market_resolution(mon, market_id, outcome_id) ==
    [mon EXCEPT
        !.resolutions = upsert_resolution(@, market_id, outcome_id, mon.clock),
        !.cache[market_id] = [present |-> TRUE, outcome_id |-> outcome_id,
                              status |-> "Resolved", resolved_at |-> mon.clock],
        !.trades = update_trades_for_resolution(@, market_id, outcome_id)]

\* CalibrationTracker::update_prediction_outcome
update_prediction_outcome(predictions, market_id, winning_outcome) ==
    [q \in PredictionIds |->
        IF /\ predictions[q].present
           /\ predictions[q].market_id = market_id
           /\ predictions[q].actual_outcome = Null
        THEN [predictions[q] EXCEPT
                !.actual_outcome = IF predictions[q].outcome_id = winning_outcome
                                   THEN One ELSE Zero]
        ELSE predictions[q]]

MaxClock == 2
MaxResolutions == 2
MonitorPrices == {Rat(2, 5)}

monitorFrame ==
    << managerVars, pipelineVars, flows, sizing, pairs, quoting, correlation, ingress,
       drift >>

Handled == IF monitor.last.handled THEN monitor.last.count ELSE 0

\* process_event(MarketResolved): handle_market_resolution; `last` keeps the
\* tables as they were before the delivery
MonitorResolved ==
    /\ Handled < MaxResolutions
    /\ \E market_id \in Markets, outcome_id \in Outcomes :
        monitor' = [handle_market_resolution(monitor, market_id, outcome_id) EXCEPT
            !.last = [handled |-> TRUE, count |-> Handled + 1,
                      market_id |-> market_id, outcome_id |-> outcome_id,
                      resolutions |-> monitor.resolutions,
                      trades |-> monitor.trades,
                      predictions |-> monitor.predictions]]
    /\ UNCHANGED monitorFrame

\* a trade is written to the trades table, its pnl NULL
MonitorTradeStored ==
    /\ \E t \in TradeIds, market_id \in Markets, outcome_id \in Outcomes,
          side \in BOOLEAN, price \in MonitorPrices :
        /\ ~monitor.trades[t].present
        /\ monitor' = [monitor EXCEPT !.trades[t] =
              [present |-> TRUE, market_id |-> market_id, outcome_id |-> outcome_id,
               side |-> side, price |-> price, pnl |-> Null, pnl_percent |-> Null]]
    /\ UNCHANGED monitorFrame

\* CalibrationTracker::record_prediction
RecordPrediction ==
    /\ \E q \in PredictionIds, market_id \in Markets, outcome_id \in Outcomes :
        /\ ~monitor.predictions[q].present
        /\ monitor' = [monitor EXCEPT !.predictions[q] =
              [present |-> TRUE, market_id |-> market_id, outcome_id |-> outcome_id,
               actual_outcome |-> Null]]
    /\ UNCHANGED monitorFrame

\* CalibrationTracker::update_prediction_outcome
UpdatePredictionOutcome ==
    /\ \E market_id \in Markets, winning_outcome \in Outcomes :
        /\ monitor.resolutions[market_id].present
        /\ monitor.resolutions[market_id].outcome_id = winning_outcome
        /\ monitor' = [monitor EXCEPT !.predictions =
              update_prediction_outcome(@, market_id, winning_outcome)]
    /\ UNCHANGED monitorFrame

\* Utc::now() moves on
MonitorClock ==
    /\ monitor.clock < MaxClock
    /\ monitor' = [monitor EXCEPT !.clock = @ + 1]
    /\ UNCHANGED monitorFrame

NextMonitor ==
    \/ MonitorResolved
    \/ MonitorTradeStored
    \/ RecordPrediction
    \/ UpdatePredictionOutcome
    \/ MonitorClock

SpecMonitor == Init /\ [][NextMonitor]_vars

\* the last delivery repeated the resolution the table already held
Redelivered ==
    /\ monitor.last.handled
    /\ monitor.last.resolutions[monitor.last.market_id].present
    /\ monitor.last.resolutions[monitor.last.market_id].status = "Resolved"
    /\ monitor.last.resolutions[monitor.last.market_id].outcome_id
          = monitor.last.outcome_id

\* the P&L already set on trades and the outcomes already set on predictions
\* are as they were before the last delivery
SettledRowsKept ==
    /\ \A t \in TradeIds :
          (monitor.last.trades[t].present /\ monitor.last.trades[t].pnl # Null)
          => monitor.trades[t] = monitor.last.trades[t]
    /\ \A q \in PredictionIds :
          (/\ monitor.last.predictions[q].present
           /\ monitor.last.predictions[q].actual_outcome # Null)
          => monitor.predictions[q].actual_outcome
                = monitor.last.predictions[q].actual_outcome

\* C21: a second delivery of MarketResolved for a market with the same winning
\* outcome leaves the stored resolution record, the P&L already set on the
\* market's trades and the actual_outcome already set on its predictions as
\* they were.
C21_ResolutionRedeliveryNoOp ==
    Redelivered =>
        /\ monitor.resolutions[monitor.last.market_id]
              = monitor.last.resolutions[monitor.last.market_id]
        /\ SettledRowsKept

\* a second delivery keeps the rows already settled
RedeliveryKeepsSettledRows == Redelivered => SettledRowsKept

-----------------------------------------------------------------------------
(* The drift detector (monitoring/drift_detection.rs) of one strategy over   *)
(* the drift_alerts table; what its queries return is an input of each check *)
(* (SpecDrift).                                                              *)

\* DriftDetectionConfig::default
DriftDetectionConfig ==
    [window_hours |-> 24, pnl_decline_threshold |-> Num(20),
     hit_rate_decline_threshold |-> Num(10),
     brier_score_increase_threshold |-> Rat(5, 100),
     volume_decline_threshold |-> Num(30)]

NoDetection == [drift_type |-> "None"]

Detection(strategy_id, at, drift_type, severity, metric_value, threshold) ==
    [strategy_id |-> strategy_id, detected_at |-> at, drift_type |-> drift_type,
     severity |-> severity, metric_value |-> metric_value, threshold |-> threshold]

\* DriftDetector::check_performance_drift on the sums and counts its two
\* queries return
check_performance_drift(cfg, strategy_id, at, recent, historical) ==
    IF historical.count = 0 THEN NoDetection
    ELSE LET recent_pnl_per_trade ==
                 IF recent.count > 0 THEN RDiv(recent.pnl, Num(recent.count)) ELSE Zero
             historical_pnl_per_trade == RDiv(historical.pnl, Num(historical.count))
             decline_pct ==
                 RMul(RDiv(RSub(historical_pnl_per_trade, recent_pnl_per_trade),
                           RAbs(historical_pnl_per_trade)), Num(100))
         IN  IF /\ RGt(historical_pnl_per_trade, Zero)
                /\ RGt(decline_pct, cfg.pnl_decline_threshold)
             THEN Detection(strategy_id, at, "PerformanceDrift",
                            IF RGt(decline_pct, Num(50)) THEN "Critical"
                            ELSE IF RGt(decline_pct, Num(30)) THEN "High"
                            ELSE "Medium",
                            decline_pct, cfg.pnl_decline_threshold)
             ELSE NoDetection

\* DriftDetector::check_prediction_drift on the two Brier scores its queries
\* return
check_prediction_drift(cfg, strategy_id, at, recent_brier, historical_brier) ==
    LET increase == RSub(recent_brier, historical_brier)
    IN  IF /\ RGt(historical_brier, Zero)
           /\ RGt(increase, cfg.brier_score_increase_threshold)
        THEN Detection(strategy_id, at, "PredictionDrift",
                       IF RGt(increase, Rat(2, 10)) THEN "Critical"
                       ELSE IF RGt(increase, Rat(1, 10)) THEN "High"
                       ELSE "Medium",
                       increase, cfg.brier_score_increase_threshold)
        ELSE NoDetection

\* DriftDetector::check_volume_drift on the two counts its queries return
check_volume_drift(cfg, strategy_id, at, recent_count, historical_count) ==
    IF historical_count > 0
    THEN LET decline_pct ==
                 RMul(RDiv(Num(historical_count - recent_count), Num(historical_count)),
                      Num(100))
         IN  IF RGt(decline_pct, cfg.volume_decline_threshold)
             THEN Detection(strategy_id, at, "VolumeDrift",
                            IF RGt(decline_pct, Num(50)) THEN "High" ELSE "Medium",
                            decline_pct, cfg.volume_decline_threshold)
             ELSE NoDetection
    ELSE NoDetection

\* the drifts of check_strategy_drift, in the order it pushes them
strategy_drifts(cfg, strategy_id, at, data) ==
    SelectSeq(<< check_performance_drift(cfg, strategy_id, at, data.recent,
                                         data.historical),
                 check_prediction_drift(cfg, strategy_id, at, data.recent_brier,
                                        data.historical_brier),
                 check_volume_drift(cfg, strategy_id, at, data.recent.count,
                                    data.historical.count) >>,
              LAMBDA d : d # NoDetection)

\* DriftDetector::store_drift_alert: the INSERT into drift_alerts
store_drift_alert(alerts, d) ==
    Append(alerts, [strategy_id |-> d.strategy_id, detected_at |-> d.detected_at,
                    drift_type |-> d.drift_type, severity |-> d.severity,
                    acknowledged |-> FALSE])

\* the loop of check_strategy_drift over its drifts
RECURSIVE store_drifts(_, _)
store_drifts(alerts, drifts) ==
    IF drifts = << >> THEN alerts
    ELSE store_drifts(store_drift_alert(alerts, Head(drifts)), Tail(drifts))

\* DriftDetector::acknowledge_alert
acknowledge_alert(alerts, strategy_id, detected_at) ==
    [i \in DOMAIN alerts |->
        IF alerts[i].strategy_id = strategy_id /\ alerts[i].detected_at = detected_at
        THEN [alerts[i] EXCEPT !.acknowledged = TRUE]
        ELSE alerts[i]]

MaxDriftHours == 24
MaxChecks == 2
DriftStrategies == {"sentiment-v1"}
\* what the queries over trades and predictions can return
DriftData ==
    [recent : {[pnl |-> Num(100), count |-> 10], [pnl |-> Num(10), count |-> 2]},
     historical : {[pnl |-> Num(100), count |-> 10], [pnl |-> Zero, count |-> 0]},
     recent_brier : {Rat(1, 10), Rat(3, 10)},
     historical_brier : {Rat(1, 10)}]

driftFrame ==
    << managerVars, pipelineVars, flows, sizing, pairs, quoting, correlation, ingress,
       monitor >>

Checks == IF drift.last.checked THEN drift.last.count ELSE 0

\* DriftDetector::check_strategy_drift
CheckStrategyDrift ==
    /\ Checks < MaxChecks
    /\ \E strategy_id \in DriftStrategies, data \in DriftData :
        LET drifts == strategy_drifts(DriftDetectionConfig, strategy_id, drift.clock, data)
        IN  drift' = [drift EXCEPT
                !.alerts = store_drifts(@, drifts),
                !.last = [checked |-> TRUE, count |-> Checks + 1, at |-> drift.clock,
                          alerts |-> drift.alerts, drifts |-> drifts]]
    /\ UNCHANGED driftFrame

\* DriftDetector::acknowledge_alert on an alert read from the table
AcknowledgeAlert ==
    /\ \E i \in DOMAIN drift.alerts :
        /\ ~drift.alerts[i].acknowledged
        /\ drift' = [drift EXCEPT !.alerts =
              acknowledge_alert(@, drift.alerts[i].strategy_id,
                                drift.alerts[i].detected_at)]
    /\ UNCHANGED driftFrame

\* Utc::now() moves on by twelve hours
DriftClock ==
    /\ drift.clock + 12 <= MaxDriftHours
    /\ drift' = [drift EXCEPT !.clock = @ + 12]
    /\ UNCHANGED driftFrame

NextDrift ==
    \/ CheckStrategyDrift
    \/ AcknowledgeAlert
    \/ DriftClock

SpecDrift == Init /\ [][NextDrift]_vars

\* the alerts the last check added to the table
NewAlerts ==
    {drift.alerts[i] : i \in (DOMAIN drift.alerts) \ (DOMAIN drift.last.alerts)}

\* C25: a check stores no alert for a strategy and drift type that had an
\* acknowledged alert detected within the current window before the check.
C25_AcknowledgedDriftNotRestored ==
    drift.last.checked =>
        \A new \in NewAlerts :
            ~ \E i \in DOMAIN drift.last.alerts :
                /\ drift.last.alerts[i].acknowledged
                /\ drift.last.alerts[i].strategy_id = new.strategy_id
                /\ drift.last.alerts[i].drift_type = new.drift_type
                /\ drift.last.alerts[i].detected_at
                      > drift.last.at - DriftDetectionConfig.window_hours

-----------------------------------------------------------------------------
(* The signal pipeline: SignalPipeline::process on the candidates its       *)
(* generators yield for one input.                                          *)

MaxTicks == 1
\* the generators registered with add_generator
Generators == << "SpreadArbitrage", "PairCostArbitrage" >>
NoSignal == [id |-> 0]

\* what a generator can yield for an input, apart from nothing
SignalShapes ==
    [market_id : {"m1"}, outcome_id : {"YES"}, direction : {"Long"},
     entry_price : {Rat(1, 2)},
     position_size : {Num(0), Num(300)},
     confidence : {Rat(1, 2), Rat(4, 5)},
     edge : {Rat(1, 25), Rat(1, 10)},
     expected_value : {Num(10), Num(20)},
     liquidity_score : {Rat(1, 2)}]

SignalWithId(shape, id) ==
    [id |-> id, market_id |-> shape.market_id, outcome_id |-> shape.outcome_id,
     direction |-> shape.direction, entry_price |-> shape.entry_price,
     position_size |-> shape.position_size, confidence |-> shape.confidence,
     edge |-> shape.edge, expected_value |-> shape.expected_value,
     liquidity_score |-> shape.liquidity_score]

DefaultValidators == << "EdgeThreshold", "Confidence", "Liquidity", "ExpectedValue" >>

\* SignalValidator::validate of the four validators, each with its default config
validator_passes(validator, signal) ==
    CASE validator = "EdgeThreshold" -> RGe(signal.edge, Rat(5, 100))
      [] validator = "Confidence" -> RGe(signal.confidence, Rat(7, 10))
      [] validator = "Liquidity" ->
           LET position_ratio ==
                   RDiv(signal.position_size,
                        RMax(RMul(signal.liquidity_score, Num(10000)), One))
           IN  /\ RGe(signal.liquidity_score, Rat(3, 10))
               /\ RLe(position_ratio, Rat(1, 10))
      [] validator = "ExpectedValue" ->
           /\ RGe(signal.expected_value, Num(5))
           /\ RGt(signal.expected_value, Zero)

\* SignalPipeline::validate: every registered validator accepts the signal
validate(pl, signal) ==
    \A i \in DOMAIN pl.validators : validator_passes(pl.validators[i], signal)

\* the sort key of process: expected_value * confidence
score(signal) == RMul(signal.expected_value, signal.confidence)

\* insert_by_score putting the signal last whatever its score
insert_last(sorted, signal) == Append(sorted, signal)

\* signal put behind every element of the sorted sequence that scores as much
insert_by_score(sorted, signal) ==
    LET ahead == {i \in DOMAIN sorted : RGe(score(sorted[i]), score(signal))}
        n == Cardinality(ahead)
    IN  SubSeq(sorted, 1, n) \o << signal >> \o SubSeq(sorted, n + 1, Len(sorted))

RECURSIVE sort_by_score(_)
\* the stable sort of process, best score first
sort_by_score(signals) ==
    IF signals = << >> THEN << >>
    ELSE insert_by_score(sort_by_score(SubSeq(signals, 1, Len(signals) - 1)),
                         signals[Len(signals)])

truncate(signals, n) == SubSeq(signals, 1, IF Len(signals) < n THEN Len(signals) ELSE n)

\* the signals of generated that pass the two global filters of process
global_filters(pl, generated) ==
    SelectSeq(generated, LAMBDA sg : /\ RGe(sg.confidence, pl.config.min_confidence)
                                     /\ RGe(sg.edge, pl.config.min_edge))

\* SignalPipeline::process: the signals returned for the generated candidates
process(pl, generated) ==
    IF ~pl.config.enabled THEN << >>
    ELSE LET filtered == global_filters(pl, generated)
             validated_signals == SelectSeq(filtered, LAMBDA sg : validate(pl, sg))
         IN  truncate(sort_by_score(validated_signals), pl.config.max_signals_per_cycle)

\* InMemoryStorage::store of every signal of returned
store_all(st, returned) ==
    LET ids == {returned[i].id : i \in DOMAIN returned}
    IN  [id \in DOMAIN st \cup ids |->
            IF id \in ids
            THEN LET i == CHOOSE j \in DOMAIN returned : returned[j].id = id
                 IN  returned[i]
            ELSE st[id]]

\* one call of process: each generator yields a signal or nothing
ProcessTick ==
    /\ lastTick.tick < MaxTicks
    /\ \E yields \in [DOMAIN Generators -> SignalShapes \cup {NoSignal}] :
        LET tick == lastTick.tick + 1
            made == [g \in DOMAIN Generators |->
                        IF yields[g] = NoSignal THEN NoSignal
                        ELSE SignalWithId(yields[g], (tick - 1) * Len(Generators) + g)]
            generated == IF pipeline.config.enabled
                         THEN SelectSeq(made, LAMBDA sg : sg # NoSignal)
                         ELSE << >>
            returned == process(pipeline, generated)
        IN  /\ lastTick' = [tick |-> tick, candidates |-> generated, returned |-> returned]
            /\ stored' = IF pipeline.has_storage THEN store_all(stored, returned)
                         ELSE stored
    /\ UNCHANGED << ledgerVars, config, circuit_breaker, now, steps, lastEvent, lastEval,
                    pipeline, extVars >>

\* the pipelines built with add_validator and with_storage
Pipelines ==
    {[config |-> [DefaultPipelineConfig EXCEPT !.enabled = e,
                                               !.max_signals_per_cycle = m],
      validators |-> v, has_storage |-> st] :
        e \in BOOLEAN, m \in {1, 10}, v \in {<< >>, DefaultValidators}, st \in BOOLEAN}

InitPipeline == \E pl \in Pipelines : Built(DefaultConfig, pl)

NextPipeline == ProcessTick

SpecPipeline == InitPipeline /\ [][NextPipeline]_vars

-----------------------------------------------------------------------------
(* Claims about the circuit breaker, checked under SpecBreaker.             *)

Evaluated == lastEval # NoEval

\* the breaker tripped before the last evaluation and has stayed so since
TrippedBeforeEval ==
    /\ Evaluated
    /\ circuit_breaker.is_triggered
    /\ circuit_breaker.trigger_time < lastEval.at

SinceTrip == lastEval.at - circuit_breaker.trigger_time

\* C3: after the circuit breaker trips at time T, every pre-trade check
\* submitted while now - T < cooldown is rejected.
C3_ActiveBreakerRejects ==
    (TrippedBeforeEval /\ SinceTrip < Cooldown) => lastEval.result.kind # "Ok"

\* gates 1 to 5 of the pre-trade check, for the trade of the last evaluation
OtherGatesPass ==
    LET value == RMul(lastEval.price, lastEval.size)
    IN  /\ check_trade(config.risk_limits, positions, lastEval.market_id,
                       lastEval.side, value).kind = "Ok"
        /\ RLe(value, kelly_limit(config, lastEval.price))

C6_HardTripHolds ==
    (/\ circuit_breaker.is_triggered
     /\ violations_today(circuit_breaker) >= circuit_breaker_config.max_violations_per_day
     /\ now < Day)
    => is_active(circuit_breaker, now)

-----------------------------------------------------------------------------
(* Claims about the pre-trade gate, checked under SpecGate.                 *)

EvalValue == RMul(lastEval.price, lastEval.size)

GateOrder ==
    << "MaxTotalExposureExceeded", "MaxPositionSizeExceeded", "MaxPositionsExceeded",
       "MaxThemeExposureExceeded", "KellyLimitExceeded" >>

GateFails(check, cfg, pos, e) ==
    LET v == RMul(e.price, e.size)
        l == cfg.risk_limits
    IN  CASE check = "MaxTotalExposureExceeded" ->
               RGt(RAdd(total_value(pos), v), l.max_total_exposure)
          [] check = "MaxPositionSizeExceeded" -> RGt(v, l.max_position_size)
          [] check = "MaxPositionsExceeded" ->
               e.side = "Buy" /\ num_positions(pos) >= l.max_positions
          [] check = "MaxThemeExposureExceeded" ->
               /\ \E k \in Held(pos) : k[1] = e.market_id
               /\ RGt(RAdd(calculate_theme_exposure(pos, "default"), v),
                      l.max_theme_exposure)
          [] check = "KellyLimitExceeded" -> RGt(v, kelly_limit(cfg, e.price))

FirstFailing(cfg, pos, e) ==
    LET failing == {i \in DOMAIN GateOrder : GateFails(GateOrder[i], cfg, pos, e)}
    IN  IF failing = {} THEN "Ok"
        ELSE GateOrder[CHOOSE i \in failing : \A j \in failing : i <= j]

LimitGrid ==
    [max_position_size |-> {Num(5), Num(100)},
     max_total_exposure |-> {Num(30), Num(1000)},
     max_theme_exposure |-> {Num(5), Num(500)},
     max_positions |-> {Num(1), Num(20)}]

LimitValue(l, f) == IF f = "max_positions" THEN Num(l[f]) ELSE l[f]

\* the configuration cfg with limit f moved to g
WithLimit(cfg, f, g) ==
    [cfg EXCEPT !.risk_limits[f] = IF f = "max_positions" THEN g.n ELSE g]

\* the gate as a whole, and its limit checks alone, on trade e
Approves(cfg, pos, e) ==
    evaluate_trade(cfg, pos, e.market_id, e.outcome_id, e.side, e.price, e.size).kind = "Ok"

WithinLimits(cfg, pos, e) ==
    check_trade(cfg.risk_limits, pos, e.market_id, e.side, RMul(e.price, e.size)).kind = "Ok"

\* C8: for a fixed ledger and a fixed proposed trade, raising a risk limit never
\* turns an approval into a rejection and lowering one never turns a rejection
\* into an approval; this holds of the gate and of its limit checks alone.
C8_GateMonotone ==
    [][lastEval' # lastEval =>
        \A f \in DOMAIN LimitGrid : \A g \in LimitGrid[f] :
            LET moved == WithLimit(config, f, g)
                raised == RGe(g, LimitValue(config.risk_limits, f))
                e == lastEval'
            IN  /\ (raised /\ e.result.kind = "Ok") => Approves(moved, positions, e)
                /\ (~raised /\ e.result.kind # "Ok") => ~Approves(moved, positions, e)
                /\ (raised /\ WithinLimits(config, positions, e))
                     => WithinLimits(moved, positions, e)
                /\ (~raised /\ ~WithinLimits(config, positions, e))
                     => ~WithinLimits(moved, positions, e)]_vars

\* C8 witness: a trade of positive value within the limits in force, and a trade
\* the gate approved, each rejected under a lower limit
C8_Witness ==
    /\ Evaluated
    /\ lastEval.result.kind = "Ok"
    /\ Approves(config, positions, lastEval)
    /\ \E f \in DOMAIN LimitGrid : \E g \in LimitGrid[f] :
         /\ RLt(g, LimitValue(config.risk_limits, f))
         /\ ~Approves(WithLimit(config, f, g), positions, lastEval)
    /\ \E sz \in EvalSizes :
         LET e == [lastEval EXCEPT !.size = sz]
         IN  /\ RGt(sz, Zero)
             /\ WithinLimits(config, positions, e)
             /\ \E f \in DOMAIN LimitGrid : \E g \in LimitGrid[f] :
                  /\ RLt(g, LimitValue(config.risk_limits, f))
                  /\ ~WithinLimits(WithLimit(config, f, g), positions, e)

-----------------------------------------------------------------------------
(* Claims about the signal pipeline, checked under SpecPipeline.            *)

\* the limit checks of the pre-trade gate applied to a signal as a buy of
\* position_size at entry_price
PassesRiskCheck(signal) ==
    check_trade(config.risk_limits, positions, signal.market_id, "Buy",
                RMul(signal.entry_price, signal.position_size)).kind = "Ok"

\* C9: every signal the pipeline returns for a tick has passed the pre-trade
\* risk check; a candidate that fails it is never emitted.
C9_ReturnedPassedRiskCheck ==
    \A i \in DOMAIN lastTick.returned : PassesRiskCheck(lastTick.returned[i])

Ticked == lastTick.tick > 0

StoredIds == DOMAIN stored

\* C22: with storage configured, every candidate of a tick is stored: the
\* signals returned and the rejected candidates, these with their reason.
C22_EveryCandidateStored ==
    (Ticked /\ pipeline.has_storage) =>
        \A i \in DOMAIN lastTick.candidates :
            /\ lastTick.candidates[i].id \in StoredIds
            /\ (\A j \in DOMAIN lastTick.returned :
                    lastTick.returned[j].id # lastTick.candidates[i].id)
               => "rejection_reason" \in DOMAIN stored[lastTick.candidates[i].id]

\* the signals returned are stored when storage is configured
ReturnedAreStored ==
    (Ticked /\ pipeline.has_storage) =>
        \A j \in DOMAIN lastTick.returned :
            /\ lastTick.returned[j].id \in StoredIds
            /\ stored[lastTick.returned[j].id] = lastTick.returned[j]

\* the candidates of the last tick that passed the filters and the validators
Validated ==
    SelectSeq(global_filters(pipeline, lastTick.candidates),
              LAMBDA sg : validate(pipeline, sg))

ReturnedIds == {lastTick.returned[j].id : j \in DOMAIN lastTick.returned}

\* C23: the signals returned for a tick are in descending order of
\* expected_value * confidence, number at most max_signals_per_cycle, and
\* every validated candidate that was cut scores no more than any returned.
C23_RankedAndTruncated ==
    Ticked =>
        /\ \A i, j \in DOMAIN lastTick.returned :
              i < j => RGe(score(lastTick.returned[i]), score(lastTick.returned[j]))
        /\ Len(lastTick.returned) <= pipeline.config.max_signals_per_cycle
        /\ \A c \in DOMAIN Validated :
              Validated[c].id \notin ReturnedIds =>
                  \A j \in DOMAIN lastTick.returned :
                      RGe(score(lastTick.returned[j]), score(Validated[c]))

\* two validated candidates, the better one generated second, one slot: the
\* better one is returned and the other is cut
C23_Witness ==
    /\ Ticked
    /\ pipeline.config.enabled
    /\ Len(Validated) = 2
    /\ RLt(score(Validated[1]), score(Validated[2]))
    /\ Len(lastTick.returned) = 1
    /\ lastTick.returned[1] = Validated[2]

\* the signals the generators returned on their last calls
EmittedSignals ==
    (IF PairGenerated
     THEN {pairs.last.signals[i] : i \in DOMAIN pairs.last.signals} ELSE {})
    \cup (IF quoting.last.generated
          THEN {quoting.last.signals[i] : i \in DOMAIN quoting.last.signals} ELSE {})
    \cup (IF correlation.last.found
          THEN UNION { {correlation.last.signals[v][j] :
                           j \in DOMAIN correlation.last.signals[v]} :
                       v \in DOMAIN correlation.last.signals }
          ELSE {})

PriceLadder(sig) ==
    IF sig.direction = "Long"
    THEN /\ RGe(sig.stop_loss, Zero)
         /\ RLt(sig.stop_loss, sig.entry_price)
         /\ RLt(sig.entry_price, sig.target_price)
         /\ RLe(sig.target_price, One)
    ELSE /\ RGe(sig.target_price, Zero)
         /\ RLt(sig.target_price, sig.entry_price)
         /\ RLt(sig.entry_price, sig.stop_loss)
         /\ RLe(sig.stop_loss, One)

\* C24: every signal a generator emits has 0 <= stop_loss < entry_price <
\* target_price <= 1 when Long and 0 <= target_price < entry_price <
\* stop_loss <= 1 when Short.
C24_SignalPriceLadder == \A sig \in EmittedSignals : PriceLadder(sig)

\* the amounts of capital the gate's limit is compared for: the amount
\* evaluate_trade passes (kelly_multiplier) and the bankroll of the lib.rs test
Bankrolls == {Rat(1, 4), Num(1000)}

AfterPurchase(st, sig) ==
    IF sig.direction = "Long" THEN add_yes(st, sig.position_size, sig.entry_price)
    ELSE add_no(st, sig.position_size, sig.entry_price)

\* max(yes_qty, no_qty) / min(yes_qty, no_qty) <= max_imbalance_ratio, for a
\* state that holds both sides
WithinImbalance(st, cfg) ==
    LET hi == RMax(st.yes_qty, st.no_qty)
        lo == RMin(st.yes_qty, st.no_qty)
    IN  RGt(lo, Zero) => RLe(RDiv(hi, lo), cfg.max_imbalance_ratio)

\* C27: a YES or NO purchase is accepted by the pair-cost generator only if,
\* after the trade, max(yes_qty, no_qty) / min(yes_qty, no_qty) is at most
\* max_imbalance_ratio and the total size held is at most max_total_size.
C27_AcceptedPurchaseBalanced ==
    PairGenerated =>
        \A i \in DOMAIN pairs.last.signals :
            LET after == AfterPurchase(pairs.last.state, pairs.last.signals[i])
            IN  /\ WithinImbalance(after, PairCostConfig)
                /\ RLe(RAdd(after.yes_qty, after.no_qty), PairCostConfig.max_total_size)

\* edge i of the last search is SameOutcome, both prices were known and they
\* differ by at least the edge's min_spread
SameOutcomeViolated(i) ==
    LET edge == correlation.last.edges[i]
        price_a == correlation.last.market_prices[edge.from_market]
        price_b == correlation.last.market_prices[edge.to_market]
    IN  /\ edge.correlation_type = "SameOutcome"
        /\ price_a # NoValue
        /\ price_b # NoValue
        /\ RGe(RAbs(RSub(price_a, price_b)), edge.min_spread)

\* the trades of the opportunity the last search found on edge i
TradesOf(i) ==
    UNION { { correlation.last.violations[v].trades[j] :
                j \in DOMAIN correlation.last.violations[v].trades } :
            v \in { w \in DOMAIN correlation.last.violations :
                      correlation.last.violations[w].id = i } }

\* C28: for a SameOutcome edge whose two market prices differ by at least
\* min_spread, the detected opportunity contains two trades: Long on the
\* cheaper market and Short on the richer market.
C28_SameOutcomeLongCheapShortRich ==
    correlation.last.found =>
        \A i \in DOMAIN correlation.last.edges :
            SameOutcomeViolated(i) =>
                LET edge == correlation.last.edges[i]
                    price_a == correlation.last.market_prices[edge.from_market]
                    price_b == correlation.last.market_prices[edge.to_market]
                    cheap == IF RLt(price_a, price_b) THEN edge.from_market
                             ELSE edge.to_market
                    rich == IF RLt(price_a, price_b) THEN edge.to_market
                            ELSE edge.from_market
                IN  { << t.market_id, t.direction >> : t \in TradesOf(i) }
                        = { << cheap, "Long" >>, << rich, "Short" >> }

\* C29: after any sequence of TradeExecution, PositionClosed and
\* VolatilityUpdate state updates, the market-making imbalance
\* (yes - no) / (yes + no) lies in [-1, 1].
C29_ImbalanceWithinUnit ==
    /\ RGe(calculate_imbalance(quoting.state), RNeg(One))
    /\ RLe(calculate_imbalance(quoting.state), One)

\* C30: the post-trade monitor only reports: when a Trade event has been
\* applied to the ledger and the monitor then reports a violation,
\* process_event returns an error, and the positions and the P&L history are
\* those update_position_from_trade left; nothing is unwound, and the circuit
\* breaker and the realized P&L are not touched.
C30_ViolationKeepsLedger ==
    [][(/\ Processed
        /\ lastEvent'.event.type = "Trade"
        /\ lastEvent'.violations # << >>)
       => LET u == update_position_from_trade(positions, pnl_history, lastEvent'.event)
          IN  /\ u.result = "Ok"
              /\ lastEvent'.result = "CircuitBreakerTriggered"
              /\ positions' = u.positions
              /\ pnl_history' = u.pnl_history
              /\ << positions', pnl_history' >> # << positions, pnl_history >>
              /\ total_realized_pnl' = total_realized_pnl
              /\ circuit_breaker' = circuit_breaker]_vars

\* C30 witness: a sell at a loss was applied, the monitor reported a violation
\* and process_event returned the error
C30_Witness ==
    /\ lastEvent # NoEvent
    /\ lastEvent.event.type = "Trade"
    /\ lastEvent.event.side = "Sell"
    /\ lastEvent.violations # << >>
    /\ lastEvent.result = "CircuitBreakerTriggered"
    /\ pnl_history # << >>

====
